---- MODULE Spec2Model ----
(***************************************************************************)
(* mongo-connector: the replication engine.                                *)
(*                                                                         *)
(*   Connector (connector.py)        the Supervisor thread: run(), join(), *)
(*                                   write_oplog_progress()                *)
(*   DocManager (doc_manager_simulator.py)   the Sink                      *)
(*   OplogThread (oplog_manager.py)  the per-shard Tailer.  Its source is  *)
(*                                   not part of src/; it is modelled from *)
(*                                   spec.md 4.3 and from the tests.       *)
(***************************************************************************)
EXTENDS Integers, Sequences, FiniteSets, TLC

\* ------------------------------------------------------------------ bounds
\* log entries the primaries of the cluster ever write, all shards together
MaxLog == 4
\* primary changes and cursor losses the cluster goes through
MaxFailovers == 1

\* ------------------------------------------------------------- vocabulary
\* Python's None, for a position (positions are >= 1)
None == 0

\* "0" is the single implicit shard of a replica-set deployment; "s1", "s2"
\* and "s3" are shards of a router's catalogue.  The catalogue entry of "s3"
\* names a single host, not "replica-set/host,host".
Shards == {"0", "s1", "s2", "s3"}
ShardOrder == <<"0", "s1", "s2", "s3">>
\* shard_doc['host'].split('/')
HostOf(s) == IF s = "s3" THEN <<"localhost:27317">>
             ELSE <<"demo-repl", "localhost:27117,localhost:27118">>
Sinks == {1, 2}
Ids == {1, 2}
\* the values of --batch-size the model draws from
BatchSizes == {1, 2}
\* the shard key: odd ids live on s1, even ids on s2; the collection of the
\* replica set "0" holds the odd ids
IdsOf(s) == {i \in Ids : (i % 2 = 1) <=> (s \in {"0", "s1"})}
NS == "test.test"
\* three other collections of the source, one of them a system collection,
\* one in the config database, and the ids of the documents they may hold
OtherNS == "test.other"
\* a namespace of the sinks that no collection of the source has
DestNS == "test.dest"
SystemNS == "test.system.indexes"
ConfigNS == "config.chunks"
ForeignIds == {4, 5, 6}
\* the namespace of the collection that holds document i
NsOf(i) == IF i = 4 THEN OtherNS
           ELSE IF i = 5 THEN SystemNS
           ELSE IF i = 6 THEN ConfigNS
           ELSE NS

\* A position p of the model is the p-th Timestamp(time, inc) the primaries
\* hand out, two per second: (1,1), (1,2), (2,1), ...
TimeOf(p) == (p + 1) \div 2
IncOf(p) == ((p + 1) % 2) + 1
\* The width of a machine word, two bits standing for the 32 of the
\* Timestamp's halves, and the number of values of a word
Bits == 2
Word == 2 ^ Bits
\* long_to_bson_ts with the mask of a signed word
from_int64_signed(val) == <<val \div Word, val % (Word \div 2)>>
\* util.long_to_bson_ts: seconds = val >> 32, increment = val & 0xffffffff
from_int64(val) == <<val \div Word, val % Word>>
\* util.bson_ts_to_long: (timestamp.time << 32) + timestamp.inc
to_int64(time, inc) == time * Word + inc
\* util.bson_ts_to_long of the Timestamp of a position
bson_ts_to_long(ts) == to_int64(TimeOf(ts), IncOf(ts))
\* util.long_to_bson_ts, as the position of the Timestamp
long_to_bson_ts(l) == 2 * (from_int64(l)[1] - 1) + from_int64(l)[2]

\* an empty Progress Map
EmptyProgress == [s \in Shards |-> None]

Max(S) == CHOOSE x \in S : \A y \in S : y <= x
Min(S) == CHOOSE x \in S : \A y \in S : x <= y

\* the keys of source document i: the odd ones have a field "a", all have "d"
KeysOf(i) == IF i % 2 = 1 THEN {"_id", "a", "d"} ELSE {"_id", "d"}

\* an option of the command line that takes a comma-separated list: absent
\* (None), or the list
NoOption == [none |-> TRUE, list |-> <<>>]
Option(l) == [none |-> FALSE, list |-> l]
Range(l) == {l[i] : i \in 1..Len(l)}

\* dict(zip(keys, values)) that pairs the keys with the values in reverse order
zip_dict_reversed(keys, values) ==
    [x \in Range(keys) |->
        values[Len(values) + 1 - Max({i \in 1..Len(keys) : keys[i] = x})]]

\* dict(zip(keys, values)): the i-th key with the i-th value; of two equal
\* keys the later one wins
zip_dict(keys, values) ==
    [x \in Range(keys) |-> values[Max({i \in 1..Len(keys) : keys[i] = x})]]

VARIABLES
    \* --- source cluster
    log,            \* log[s]: the oplog of shard s's primary, oldest first
    coll,           \* coll[s]: ids of the documents of NS on shard s
    clock,          \* clock[s]: last position the shard ever handed out
    catalogue,      \* the shards the cluster holds (config.shards; {"0"} unsharded)
    failovers,      \* primary changes and cursor losses so far, all shards together
    \* --- sinks (DocManager instances, shared by all Tailers)
    dms,            \* dms[k] = [doc_dict, removed_dict]
    dm_stopped,     \* dm_stopped[k]: stop() has been called on sink k
    \* --- configuration
    collection_dump,
    batch_size,     \* --batch-size: log entries between two publications
    continue_on_error, \* --continue-on-error
    ns_set,         \* --namespace-set: the list of included namespaces; <<>> = all
    dest_ns_set,    \* --dest-namespace-set: an optional list
    fields,         \* --fields: an optional list
    poison,         \* ids of the source documents that carry '_upsert_exception'
    \* --- Progress Map (LockingDict) and checkpoint file
    oplog_progress, \* oplog_progress[s]: position or None
    lock,           \* who holds the map's exclusive section: "free" | "sup"
    file,           \* content of the checkpoint file: the chunks written
    disk,           \* the checkpoint path on disk: existence, permissions, backup
    boot,           \* history: kills of the process and what they interrupted
    pure,           \* a function of util or formatters applied to an input
    \* --- Tailers (OplogThread)
    state,          \* state[s]: TailerState, or "none" before construction
    running,        \* running[s]: OplogThread.running
    checkpoint,     \* checkpoint[s]: OplogThread.checkpoint
    cursor,         \* cursor[s]: index in log[s] of the last entry read; 0 = no cursor
    last_ts,        \* last_ts[s]: the local position counter
    n,              \* n[s]: entries dispatched since the last publication
    dump_start,     \* dump_start[s]
    dump_pos,       \* dump_pos[s]: last id the dump streamed
    fan,            \* fan[s]: the sinks the Tailer's current write event has reached
    \* --- a sink driven directly, as the tests of the DocManagers do
    es,             \* the Elastic DocManager and the indexes of its server
    call,           \* the last call made on a DocManager, and what it returned
    \* --- Supervisor (Connector)
    mode,           \* "REPLSET" | "SHARDED"
    can_run,
    sup_pc,         \* where Connector.run is
    shard_set,      \* shards for which a Tailer was constructed
    iter,           \* the catalogue documents the for loop has left
    join_pc,        \* where the caller of Connector.join is
    flush_iter,     \* write_oplog_progress: the entries of the map still to write
    snap_rb,        \* history: rollbacks[s] when the checkpoint file was last written
    snap_map,       \* history: the map when write_oplog_progress last entered it
    \* --- history: written by the actions, read only by the properties
    acked,          \* acked[s]: last position whose effect every sink acknowledged
    how,            \* how[s]: "resume" | "dump" | "nodump": how the Tailer left init
    found,          \* found[s]: the checkpoint the Tailer read when it left init
    initpos,        \* initpos[s]: position the Tailer initialised its checkpoint with
    lastDisp,       \* lastDisp[s][k]: position of the last write dispatched to sink k
    dispN,          \* dispN[s]: number of log entries the Tailer dispatched
    dumped,         \* dumped[s]: ids the initial dump delivered to the sinks
    dump_end,       \* dump_end[s]: last log position when the dump finished
    sinceCursor,    \* sinceCursor[s]: entries dispatched since the cursor was (re)opened
    skipped,        \* skipped[s]: last position the Tailer adopted without applying it
    rollbacks       \* rollbacks[s]: rollback reconciliations the Tailer completed

srcVars == <<log, coll, clock, catalogue, failovers>>
sinkVars == <<dms, dm_stopped>>
tailVars == <<state, running, checkpoint, cursor, last_ts, n, dump_start, dump_pos>>
supVars == <<mode, can_run, sup_pc, shard_set, iter, join_pc, snap_rb>>
histVars == <<acked, how, found, initpos, lastDisp, dispN, dumped, dump_end,
              sinceCursor, skipped, rollbacks>>
cfgVars == <<collection_dump, batch_size, continue_on_error, ns_set, dest_ns_set, fields,
             poison>>
apiVars == <<es, call, disk, boot, pure>>
lockVars == <<lock, flush_iter, snap_map>>
vars == <<srcVars, sinkVars, cfgVars, apiVars, fan, lockVars, oplog_progress, file, tailVars,
          supVars, histVars>>

\* ------------------------------------------------------------------ sinks
\* doc_manager_simulator.DocManager: two dictionaries keyed by document id.
Put(f, k, v) == [x \in (DOMAIN f) \cup {k} |-> IF x = k THEN v ELSE f[x]]
Del(f, k) == [x \in (DOMAIN f) \ {k} |-> f[x]]
EmptyDict == [x \in {} |-> None]

\* upsert without "doc['_ts'] = timestamp": the record keeps no position
upsertUnstamped(dm, doc, namespace, timestamp) ==
    [raised |-> FALSE,
     dm |-> [doc_dict |-> Put(dm.doc_dict, doc.id,
                              [id |-> doc.id, ns |-> namespace, ts |-> None,
                               keys |-> doc.keys \cup {"ns"}]),
             removed_dict |-> Del(dm.removed_dict, doc.id)]]

\* upsert without the test hook: '_upsert_exception' is not looked at
upsertNeverRaises(dm, doc, namespace, timestamp) ==
    [raised |-> FALSE,
     dm |-> [doc_dict |-> Put(dm.doc_dict, doc.id,
                              [id |-> doc.id, ns |-> namespace, ts |-> timestamp,
                               keys |-> doc.keys \cup {"ns", "_ts"}]),
             removed_dict |-> Del(dm.removed_dict, doc.id)]]

\* upsert without "del self.removed_dict[doc_id]"
upsertKeepsRemoval(dm, doc, namespace, timestamp) ==
    IF doc.upsert_exception
    THEN [raised |-> TRUE, dm |-> dm]
    ELSE [raised |-> FALSE,
          dm |-> [doc_dict |-> Put(dm.doc_dict, doc.id,
                                   [id |-> doc.id, ns |-> namespace, ts |-> timestamp,
                                    keys |-> doc.keys \cup {"ns", "_ts"}]),
                  removed_dict |-> dm.removed_dict]]

\* upsert(doc, namespace, timestamp): doc['ns'], doc['_ts'] are stamped (a
\* record keeps the keys of the document, its id, namespace and position), the
\* document replaces doc_dict[doc_id], the removal record of the id is dropped.
\* The result says whether the call raised, and the sink it leaves.
upsert(dm, doc, namespace, timestamp) ==
    IF doc.upsert_exception
    THEN [raised |-> TRUE, dm |-> dm]
    ELSE [raised |-> FALSE,
          dm |-> [doc_dict |-> Put(dm.doc_dict, doc.id,
                                   [id |-> doc.id, ns |-> namespace, ts |-> timestamp,
                                    keys |-> doc.keys \cup {"ns", "_ts"}]),
                  removed_dict |-> Del(dm.removed_dict, doc.id)]]

\* remove that records the removal and leaves the document in doc_dict
removeKeepsDoc(dm, document_id, namespace, timestamp) ==
    IF document_id \in DOMAIN dm.doc_dict
    THEN [raised |-> FALSE,
          dm |-> [doc_dict |-> dm.doc_dict,
                  removed_dict |-> Put(dm.removed_dict, document_id,
                                       [id |-> document_id, ns |-> namespace,
                                        ts |-> timestamp,
                                        keys |-> {"_id", "ns", "_ts"}])]]
    ELSE [raised |-> TRUE, dm |-> dm]

\* remove that passes over a document it does not hold
removeSilent(dm, document_id, namespace, timestamp) ==
    IF document_id \in DOMAIN dm.doc_dict
    THEN [raised |-> FALSE,
          dm |-> [doc_dict |-> Del(dm.doc_dict, document_id),
                  removed_dict |-> Put(dm.removed_dict, document_id,
                                       [id |-> document_id, ns |-> namespace,
                                        ts |-> timestamp,
                                        keys |-> {"_id", "ns", "_ts"}])]]
    ELSE [raised |-> FALSE, dm |-> dm]

\* remove(document_id, namespace, timestamp): KeyError becomes OperationFailed.
remove(dm, document_id, namespace, timestamp) ==
    IF document_id \in DOMAIN dm.doc_dict
    THEN [raised |-> FALSE,
          dm |-> [doc_dict |-> Del(dm.doc_dict, document_id),
                  removed_dict |-> Put(dm.removed_dict, document_id,
                                       [id |-> document_id, ns |-> namespace,
                                        ts |-> timestamp,
                                        keys |-> {"_id", "ns", "_ts"}])]]
    ELSE [raised |-> TRUE, dm |-> dm]

AllRecords(dm) ==
    {dm.doc_dict[i] : i \in DOMAIN dm.doc_dict}
        \cup {dm.removed_dict[i] : i \in DOMAIN dm.removed_dict}

\* search with both ends of the range exclusive
searchExclusive(dm, start_ts, end_ts) ==
    {doc \in AllRecords(dm) : doc.ts < end_ts /\ doc.ts > start_ts}

\* search(start_ts, end_ts): "if ts <= end_ts or ts >= start_ts"
search(dm, start_ts, end_ts) ==
    {doc \in AllRecords(dm) : doc.ts <= end_ts \/ doc.ts >= start_ts}

\* get_last_doc with min() for max(): the oldest record
get_last_doc_oldest(dm) ==
    IF AllRecords(dm) = {}
    THEN [raised |-> TRUE, ts |-> None]
    ELSE [raised |-> FALSE, ts |-> Min({doc.ts : doc \in AllRecords(dm)})]

\* get_last_doc(): max() over the documents and the removal records; max() of
\* an empty sequence raises ValueError.
get_last_doc(dm) ==
    IF AllRecords(dm) = {}
    THEN [raised |-> TRUE, ts |-> None]
    ELSE [raised |-> FALSE, ts |-> Max({doc.ts : doc \in AllRecords(dm)})]

\* _search(): the documents of doc_dict
SearchAll(dm) == DOMAIN dm.doc_dict

\* ----------------------------------------------------- the Elastic sink
\* elastic_doc_manager.DocManager and the two indexes of its server: the
\* documents, keyed by namespace (the index) and id, and their metadata,
\* keyed by id alone.  A document is a map from dotted paths to leaves.
EmptyDoc == [p \in {} |-> None]
IsPrefix(p, q) == Len(p) <= Len(q) /\ SubSeq(q, 1, Len(p)) = p
Metadata == {<<"_id">>, <<"ns">>, <<"_ts">>}
\* the document without its metadata, as upsert() leaves it after the pops
Body(doc) == [p \in (DOMAIN doc) \ Metadata |-> doc[p]]
\* put_metadata of the tests: the document with _id, ns and _ts
WithMetadata(body, id, ns, ts) ==
    [p \in (DOMAIN body) \cup Metadata |->
        IF p = <<"_id">> THEN id
        ELSE IF p = <<"ns">> THEN ns
        ELSE IF p = <<"_ts">> THEN ts
        ELSE body[p]]

\* auto_commit_interval = None
NoInterval == 0 - 1
\* no Timer waits
NoTimer == 0 - 2

\* --------------------------------------------- documents and formatters
\* A BSON value is a pair of its type and its content, a document a function
\* from keys to values.  formatters.py.
type(value) == value[1]
content(value) == value[2]
Number(x) == <<"int", x>>
Binary(x) == <<"bin", x>>
ObjectId(x) == <<"oid", x>>
Dict(d) == <<"map", d>>
Array(l) == <<"list", l>>
\* base64.b64encode(value)
b64encode(value) == <<"str", <<"base64", content(value)>>>>
\* str(value)
str(value) == <<"str", <<type(value), content(value)>>>>
\* the values of a function that was not called: a transformer of types_mapping
Transformer(of) == <<"function", of>>
\* the keys of DefaultDocumentFormatter.types_mapping
types_mapping == {"bin", "list", "map", "int"}

\* DefaultDocumentFormatter.format_document: _kernel yields the generator that
\* transform_element returns, not its pairs, so dict() raises ValueError on
\* the first key; only a document without keys is formatted.
format_document(document) ==
    IF DOMAIN document = {}
    THEN [raised |-> FALSE, doc |-> document]
    ELSE [raised |-> TRUE, doc |-> document]

\* DefaultDocumentFormatter.transform_value: the transformer of the value's
\* type is applied, str() without one.  The transformer of a list looks up
\* the transformer of each element, KeyError without one, and returns the
\* transformers; the transformer of a map is format_document.
transform_value(value) ==
    IF type(value) = "int" THEN [raised |-> FALSE, val |-> value]
    ELSE IF type(value) = "bin" THEN [raised |-> FALSE, val |-> b64encode(value)]
    ELSE IF type(value) = "map"
    THEN [raised |-> format_document(content(value)).raised, val |-> value]
    ELSE IF type(value) = "list"
    THEN IF \E i \in 1..Len(content(value)) : type(content(value)[i]) \notin types_mapping
         THEN [raised |-> TRUE, val |-> value]
         ELSE [raised |-> FALSE,
               val |-> Array([i \in 1..Len(content(value)) |-> Transformer(type(content(value)[i]))])]
    ELSE [raised |-> FALSE, val |-> str(value)]

\* "%s.%s" % (key, inner): a dotted key is the sequence of its components
Dotted(key, inner) == key \o inner
\* "%s" % li for a list index
IndexKey(li) == <<<<"0", "1", "2">>[li + 1]>>
\* dict() of the pairs yielded by several generators
Merge(yields) ==
    [key \in UNION {DOMAIN y : y \in yields} |->
        (CHOOSE y \in yields : key \in DOMAIN y)[key]]

\* DocumentFlattener.transform_value: a map goes to self.transform_document,
\* which no class defines (AttributeError); a list is transformed element by
\* element; numbers are kept, binary is base64-encoded, the rest is str().
RECURSIVE flat_transform_value(_)
flat_transform_value(value) ==
    IF type(value) = "map" THEN [raised |-> TRUE, val |-> value]
    ELSE IF type(value) = "list"
    THEN LET each == [i \in 1..Len(content(value)) |-> flat_transform_value(content(value)[i])]
         IN [raised |-> \E i \in 1..Len(each) : each[i].raised,
             val |-> Array([i \in 1..Len(each) |-> each[i].val])]
    ELSE IF type(value) = "int" THEN [raised |-> FALSE, val |-> value]
    ELSE IF type(value) = "bin" THEN [raised |-> FALSE, val |-> b64encode(value)]
    ELSE [raised |-> FALSE, val |-> str(value)]

RECURSIVE flat_transform_element(_, _)
RECURSIVE flatten(_, _)
RECURSIVE flat_format_document(_)

\* a transform_element that yields the value under its key as it is
flat_transform_element_whole(key, value) == (key :> flat_transform_value(value).val)
\* DocumentFlattener.transform_element: the elements of a list are unwound
\* under key.index, the entries of a map under key.doc_key of its formatted
\* document, any other value is yielded transformed under key.
flat_transform_element(key, value) ==
    IF type(value) = "list"
    THEN Merge({flat_transform_element(Dotted(key, IndexKey(li - 1)), content(value)[li]) :
                   li \in 1..Len(content(value))})
    ELSE IF type(value) = "map"
    THEN LET formatted == flat_format_document(content(value))
         IN [k \in {Dotted(key, doc_key) : doc_key \in DOMAIN formatted} |->
                formatted[SubSeq(k, Len(key) + 1, Len(k))]]
    ELSE (key :> flat_transform_value(value).val)

\* flatten(doc, path) of DocumentFlattener.format_document: a map value is
\* flattened with its key appended to path, any other goes through
\* transform_element and is prefixed with ".".join(path) below the top level.
flatten(doc, path) ==
    Merge({IF type(doc[k]) = "map"
           THEN flatten(content(doc[k]), Append(path, k))
           ELSE LET transformed == flat_transform_element(<<k>>, doc[k])
                IN [new_k \in {Dotted(path, t) : t \in DOMAIN transformed} |->
                       transformed[SubSeq(new_k, Len(path) + 1, Len(new_k))]] :
           k \in DOMAIN doc})

\* DocumentFlattener.format_document
flat_format_document(document) == flatten(document, <<>>)

\* the metadata document of upsert: {"ns": index, "_ts": ..., "_id": doc_id},
\* the _id being the key it is stored under
upsert_metadata(index, ts) == ("ns" :> index) @@ ("_ts" :> ts)
\* the metadata document of bulk_upsert: {"_ns": doc['ns'], "ts": doc['_ts']},
\* read after docs_to_upsert put the tuple "index," back as doc['ns']
bulk_metadata(index, ts) == ("_ns" :> <<index>>) @@ ("ts" :> ts)

\* upsert(doc): the body is formatted and indexed under (ns, id), then the
\* metadata under id.
es_upsert(e, doc) ==
    LET index == doc[<<"ns">>]
        doc_id == doc[<<"_id">>]
        f == format_document(Body(doc))
    IN IF f.raised
       THEN [raised |-> TRUE, es |-> e]
       ELSE [raised |-> FALSE,
             es |-> [e EXCEPT !.source = Put(@, <<index, doc_id>>, f.doc),
                              !.meta = Put(@, doc_id,
                                           upsert_metadata(index, doc[<<"_ts">>]))]]

\* DocManagerBase.apply_update (spec.md 4.3.4): $set sets each dotted path,
\* creating intermediate maps; $unset removes each path.
RECURSIVE SetPaths(_, _)
SetPaths(doc, to_set) ==
    IF DOMAIN to_set = {} THEN doc
    ELSE LET p == CHOOSE q \in DOMAIN to_set : TRUE
             kept == {q \in DOMAIN doc : ~IsPrefix(p, q) /\ ~IsPrefix(q, p)}
         IN SetPaths([q \in kept \cup {p} |-> IF q = p THEN to_set[p] ELSE doc[q]],
                     [q \in (DOMAIN to_set) \ {p} |-> to_set[q]])
UnsetPaths(doc, to_unset) ==
    [q \in {r \in DOMAIN doc : \A p \in to_unset : ~IsPrefix(p, r)} |-> doc[q]]

\* apply_update(doc, update_spec): without $set and $unset the specification
\* itself is the new document.
es_apply_update(doc, update_spec) ==
    IF ~update_spec.has_set /\ ~update_spec.has_unset
    THEN update_spec.object
    ELSE UnsetPaths(SetPaths(doc, update_spec.set), update_spec.unset)

\* update(doc, update_spec): elastic.get raises for a missing document; the
\* post-image gets the _id of the stored document and the metadata of doc,
\* and is upserted.
es_update(e, doc, update_spec) ==
    LET key == <<doc[<<"ns">>], doc[<<"_id">>]>>
    IN IF key \notin DOMAIN e.source
       THEN [raised |-> TRUE, es |-> e, out |-> EmptyDoc]
       ELSE LET updated == es_apply_update(e.source[key], update_spec)
                full == WithMetadata(Body(updated), doc[<<"_id">>], doc[<<"ns">>],
                                     doc[<<"_ts">>])
                r == es_upsert(e, full)
            IN [raised |-> r.raised, es |-> r.es,
                out |-> [p \in (DOMAIN Body(full)) \cup {<<"_id">>} |-> full[p]]]

\* the two bulk requests of a non-empty stream: every body is formatted, the
\* documents are indexed, then their metadata, under the keys _ns (a tuple by
\* then) and ts
RECURSIVE es_bulk_index(_, _)
es_bulk_index(e, docs) ==
    IF docs = <<>> THEN e
    ELSE LET doc == Head(docs)
         IN es_bulk_index(
                [e EXCEPT !.source = Put(@, <<doc[<<"ns">>], doc[<<"_id">>]>>, Body(doc)),
                          !.meta = Put(@, doc[<<"_id">>],
                                       bulk_metadata(doc[<<"ns">>], doc[<<"_ts">>]))],
                Tail(docs))

\* bulk_upsert without "except errors.EmptyDocsError: pass"
es_bulk_upsert_unguarded(e, docs) ==
    IF docs = <<>> \/ \E i \in 1..Len(docs) : format_document(Body(docs[i])).raised
    THEN [raised |-> TRUE, es |-> e]
    ELSE [raised |-> FALSE, es |-> es_bulk_index(e, docs)]

\* bulk_upsert(docs): the generators raise EmptyDocsError for an empty
\* stream, which bulk_upsert swallows; ValueError from the formatter is not
\* caught.
es_bulk_upsert(e, docs) ==
    IF docs = <<>>
    THEN [raised |-> FALSE, es |-> e]
    ELSE IF \E i \in 1..Len(docs) : format_document(Body(docs[i])).raised
    THEN [raised |-> TRUE, es |-> e]
    ELSE [raised |-> FALSE, es |-> es_bulk_index(e, docs)]

\* remove(doc): the document is deleted from the index doc['ns'], then the
\* metadata document of the id from the metadata index; a delete of what is
\* not there raises and ends the call.
es_remove(e, doc) ==
    LET key == <<doc[<<"ns">>], doc[<<"_id">>]>>
        doc_id == doc[<<"_id">>]
    IN IF key \notin DOMAIN e.source
       THEN [raised |-> TRUE, es |-> e]
       ELSE IF doc_id \notin DOMAIN e.meta
       THEN [raised |-> TRUE, es |-> [e EXCEPT !.source = Del(@, key)]]
       ELSE [raised |-> FALSE,
             es |-> [e EXCEPT !.source = Del(@, key), !.meta = Del(@, doc_id)]]

\* search(start_ts, end_ts): the metadata documents whose _ts is in the range;
\* a metadata document without _ts matches no range
es_search(e, start_ts, end_ts) ==
    {doc_id \in DOMAIN e.meta :
        /\ "_ts" \in DOMAIN e.meta[doc_id]
        /\ start_ts <= e.meta[doc_id]["_ts"] /\ e.meta[doc_id]["_ts"] <= end_ts}

\* get_last_doc(): the first metadata document in descending order of _ts;
\* None when the sort raises RequestError, no metadata document having a _ts
es_get_last_doc(e) ==
    LET stamped == {doc_id \in DOMAIN e.meta : "_ts" \in DOMAIN e.meta[doc_id]}
    IN IF stamped = {} THEN None
       ELSE CHOOSE doc_id \in stamped :
               \A other \in stamped : e.meta[other]["_ts"] <= e.meta[doc_id]["_ts"]

\* upsert(doc) for each document of docs in order, up to the first that raises
RECURSIVE es_upserts(_, _)
es_upserts(e, docs) ==
    IF docs = <<>> THEN [raised |-> FALSE, es |-> e]
    ELSE LET r == es_upsert(e, Head(docs))
         IN IF r.raised THEN r ELSE es_upserts(r.es, Tail(docs))

\* ------------------------------------------- the DocManagers, called directly
\* The tests of the DocManagers build one DocManager and call it: the
\* simulator (dms[1]), the Elastic DocManager (es), or the Elastic DocManager
\* with a background committer.
\* calls made on a DocManager in one run
MaxCalls == 3
\* the namespaces the calls name
BenchNamespaces == {NS, OtherNS}
\* positions the calls carry
Stamps == 1..3

\* the documents and update specifications the calls on Elastic draw from
PathA == <<"a">>
PathB == <<"b">>
PathC == <<"c">>
PathCX == <<"c", "x">>
PathCY == <<"c", "y">>
Doc1(f, v) == [p \in {f} |-> v]
Doc2(f, v, g, w) == [p \in {f, g} |-> IF p = f THEN v ELSE w]
EsBodies == {EmptyDoc, Doc2(PathA, 1, PathB, 2), Doc2(PathB, 2, PathCX, 1)}
Operators(to_set, to_unset) ==
    [has_set |-> DOMAIN to_set # {}, has_unset |-> to_unset # {},
     set |-> to_set, unset |-> to_unset, object |-> EmptyDoc]
Replacement(object) ==
    [has_set |-> FALSE, has_unset |-> FALSE, set |-> EmptyDoc, unset |-> {},
     object |-> object]
UpdateSpecs ==
    {Operators(Doc1(PathA, 3), {}),
     Operators(EmptyDoc, {PathA}),
     Operators(Doc1(PathC, 3), {PathB}),
     Operators(Doc1(PathCY, 2), {}),
     Operators(EmptyDoc, {PathA, PathB, PathC}),
     Replacement(Doc1(PathB, 5)),
     Replacement(EmptyDoc)}

\* no call was made.  The fields of a call: the DocManager, the number of the
\* call, the operation, its arguments (id, ts, end_ts, body, update_spec,
\* docs), whether the DocManager held the document (hit), whether the call
\* raised, and what it returned (found, last, post)
NoCall == [dm |-> "none", n |-> 0, op |-> "", hit |-> FALSE, raised |-> FALSE,
           id |-> 0, ns |-> "", ts |-> 0, end_ts |-> 0, body |-> EmptyDoc,
           update_spec |-> Replacement(EmptyDoc), docs |-> <<>>,
           found |-> {}, last |-> None, post |-> EmptyDoc]
\* the Elastic DocManager that nobody built
EsOff == [source |-> EmptyDict, meta |-> EmptyDict, interval |-> NoInterval,
          pc |-> "done", timer |-> NoTimer, stopped |-> FALSE, late |-> 0]
\* the checkpoint path of a Connector whose file is there, readable and
\* writable, in a directory it may write; no backup beside it
PlainDisk == [exists |-> TRUE, r |-> TRUE, w |-> TRUE, dir_w |-> TRUE,
              garbled |-> FALSE, has_backup |-> FALSE, backup |-> <<>>]
\* a process that was never killed
NoBoot == [kills |-> 0, at |-> "", found |-> "", unwritable |-> FALSE,
           old |-> [s \in Shards |-> None], new |-> [s \in Shards |-> None]]
\* no function applied
NoPure == [fn |-> "", step |-> 0, arg |-> <<>>, out |-> <<>>, raised |-> FALSE]
NoBench ==
    es = EsOff /\ call = NoCall /\ disk = PlainDisk /\ boot = NoBoot /\ pure = NoPure

\* the record of a call without arguments and result
Called(dm, op, hit, raised) ==
    [NoCall EXCEPT !.dm = dm, !.n = call.n + 1, !.op = op, !.hit = hit,
                   !.raised = raised]

benchRest == <<srcVars, dm_stopped, cfgVars, fan, lockVars, oplog_progress, file, disk, boot,
               pure, tailVars, supVars, histVars>>

\* DocManager.upsert on the simulator
SimUpsert(i, namespace, ts, exc) ==
    /\ call.dm = "simulator" /\ call.n < MaxCalls
    /\ LET r == upsert(dms[1], [id |-> i, keys |-> KeysOf(i), upsert_exception |-> exc],
                       namespace, ts)
       IN /\ dms' = [dms EXCEPT ![1] = r.dm]
          /\ call' = [Called("simulator", "upsert", i \in DOMAIN dms[1].doc_dict,
                              r.raised) EXCEPT !.id = i, !.ns = namespace, !.ts = ts]
    /\ UNCHANGED <<es, benchRest>>

\* DocManager.remove on the simulator
SimRemove(i, namespace, ts) ==
    /\ call.dm = "simulator" /\ call.n < MaxCalls
    /\ LET r == remove(dms[1], i, namespace, ts)
       IN /\ dms' = [dms EXCEPT ![1] = r.dm]
          /\ call' = [Called("simulator", "remove", i \in DOMAIN dms[1].doc_dict,
                              r.raised) EXCEPT !.id = i, !.ns = namespace, !.ts = ts]
    /\ UNCHANGED <<es, benchRest>>

\* list(DocManager.search(start_ts, end_ts)) on the simulator
SimSearch(start_ts, end_ts) ==
    /\ call.dm = "simulator" /\ call.n < MaxCalls
    /\ call' = [Called("simulator", "search", FALSE, FALSE)
                   EXCEPT !.ts = start_ts, !.end_ts = end_ts,
                          !.found = search(dms[1], start_ts, end_ts)]
    /\ UNCHANGED <<es, dms, benchRest>>

\* DocManager.get_last_doc() on the simulator
SimGetLastDoc ==
    /\ call.dm = "simulator" /\ call.n < MaxCalls
    /\ LET r == get_last_doc(dms[1])
       IN call' = [Called("simulator", "get_last_doc", FALSE, r.raised)
                      EXCEPT !.last = r.ts]
    /\ UNCHANGED <<es, dms, benchRest>>

\* DocManager.upsert(put_metadata(body)) on Elastic
EsUpsert(i, namespace, ts, body) ==
    /\ call.dm = "elastic" /\ call.n < MaxCalls
    /\ LET r == es_upsert(es, WithMetadata(body, i, namespace, ts))
       IN /\ es' = r.es
          /\ call' = [Called("elastic", "upsert", <<namespace, i>> \in DOMAIN es.source,
                              r.raised)
                          EXCEPT !.id = i, !.ns = namespace, !.ts = ts, !.body = body]
    /\ UNCHANGED <<dms, benchRest>>

\* DocManager.remove(put_metadata({"_id": i})) on Elastic
EsRemove(i, namespace, ts) ==
    /\ call.dm = "elastic" /\ call.n < MaxCalls
    /\ LET r == es_remove(es, WithMetadata(EmptyDoc, i, namespace, ts))
       IN /\ es' = r.es
          /\ call' = [Called("elastic", "remove", <<namespace, i>> \in DOMAIN es.source,
                              r.raised) EXCEPT !.id = i, !.ns = namespace, !.ts = ts]
    /\ UNCHANGED <<dms, benchRest>>

\* DocManager.update(put_metadata(doc), update_spec) on Elastic
EsUpdate(i, ts, update_spec) ==
    /\ call.dm = "elastic" /\ call.n < MaxCalls
    /\ LET r == es_update(es, WithMetadata(EmptyDoc, i, NS, ts), update_spec)
       IN /\ es' = r.es
          /\ call' = [Called("elastic", "update", <<NS, i>> \in DOMAIN es.source,
                              r.raised)
                          EXCEPT !.id = i, !.ns = NS, !.ts = ts, !.update_spec = update_spec,
                                 !.post = r.out]
    /\ UNCHANGED <<dms, benchRest>>

\* DocManager.bulk_upsert(docs) on Elastic
EsBulkUpsert(docs) ==
    /\ call.dm = "elastic" /\ call.n < MaxCalls
    /\ LET r == es_bulk_upsert(es, docs)
       IN /\ es' = r.es
          /\ call' = [Called("elastic", "bulk_upsert", FALSE, r.raised)
                          EXCEPT !.docs = docs]
    /\ UNCHANGED <<dms, benchRest>>

\* the background committer.  run_auto_commit: refresh, test the interval,
\* read it again for the Timer and start the Timer; the thread then ends.
\* es.pc is where the thread that runs run_auto_commit is, es.timer the
\* interval of the Timer that waits.
CommitRefresh ==
    /\ call.dm = "committer" /\ es.pc = "refresh"
    /\ es' = [es EXCEPT !.pc = "test",
                        !.late = IF es.stopped /\ @ < 2 THEN @ + 1 ELSE @]
    /\ UNCHANGED <<call, dms, benchRest>>

\* "if self.auto_commit_interval not in [None, 0]"
CommitTest ==
    /\ call.dm = "committer" /\ es.pc = "test"
    /\ es' = [es EXCEPT !.pc = IF es.interval \notin {NoInterval, 0}
                               THEN "arm" ELSE "done"]
    /\ UNCHANGED <<call, dms, benchRest>>

\* "Timer(self.auto_commit_interval, self.run_auto_commit).start()"
CommitArm ==
    /\ call.dm = "committer" /\ es.pc = "arm"
    /\ es' = [es EXCEPT !.pc = "done", !.timer = es.interval]
    /\ UNCHANGED <<call, dms, benchRest>>

\* the Timer's wait(interval) returns and its thread calls run_auto_commit;
\* wait(None) never returns
TimerFire ==
    /\ call.dm = "committer" /\ es.timer \notin {NoTimer, NoInterval}
    /\ es' = [es EXCEPT !.timer = NoTimer, !.pc = "refresh"]
    /\ UNCHANGED <<call, dms, benchRest>>

\* DocManager.stop()
EsStop ==
    /\ call.dm = "committer" /\ ~es.stopped
    /\ es' = [es EXCEPT !.interval = NoInterval, !.stopped = TRUE]
    /\ call' = Called("committer", "stop", FALSE, FALSE)
    /\ UNCHANGED <<dms, benchRest>>

Committer == CommitRefresh \/ CommitTest \/ CommitArm \/ TimerFire

\* ------------------------------------------------------------ source log
\* LogEntry (spec.md 3): position, op, namespace, object id, fromMigrate
Entry(ts, op, id) ==
    [ts |-> ts, op |-> op, id |-> id, ns |-> NsOf(id), fromMigrate |-> FALSE]
Positions(lg) == {lg[i].ts : i \in 1..Len(lg)}
\* get_last_oplog_timestamp(): None for an empty log
get_last_oplog_timestamp(lg) == IF Len(lg) = 0 THEN None ELSE lg[Len(lg)].ts
\* index of the entry at position ts; 0 when the log holds none
IndexOf(lg, ts) ==
    IF ts \in Positions(lg) THEN CHOOSE i \in 1..Len(lg) : lg[i].ts = ts ELSE 0

\* entries written so far; positions are never handed out twice
LogTotal == clock["0"] + clock["s1"] + clock["s2"] + clock["s3"]

\* A client inserts document i of NS on shard s, the shard the router sends
\* a new document with this key to; no shard holds the document yet.
SourceInsert(s, i) ==
    /\ s \in catalogue /\ i \in IdsOf(s)
    /\ \A t \in Shards : i \notin coll[t]
    /\ LogTotal < MaxLog
    /\ log' = [log EXCEPT ![s] = Append(@, Entry(clock[s] + 1, "i", i))]
    /\ coll' = [coll EXCEPT ![s] = @ \cup {i}]
    /\ clock' = [clock EXCEPT ![s] = @ + 1]
    /\ UNCHANGED <<catalogue, failovers, sinkVars, cfgVars, apiVars, fan, lockVars, oplog_progress, file,
                   tailVars, supVars, histVars>>

\* the copy of document i on a shard that is receiving its chunk
Incoming(i) == 0 - i

\* A client deletes document i of NS on shard s (not while its chunk moves).
SourceDelete(s, i) ==
    /\ s \in catalogue /\ i \in coll[s]
    /\ \A t \in Shards : Incoming(i) \notin coll[t]
    /\ LogTotal < MaxLog
    /\ log' = [log EXCEPT ![s] = Append(@, Entry(clock[s] + 1, "d", i))]
    /\ coll' = [coll EXCEPT ![s] = @ \ {i}]
    /\ clock' = [clock EXCEPT ![s] = @ + 1]
    /\ UNCHANGED <<catalogue, failovers, sinkVars, cfgVars, apiVars, fan, lockVars, oplog_progress, file,
                   tailVars, supVars, histVars>>

\* A client inserts document i of another collection on shard s, or deletes
\* it when it is there.
SourceForeign(s, i) ==
    /\ s \in catalogue /\ i \in ForeignIds
    /\ LogTotal < MaxLog
    /\ log' = [log EXCEPT ![s] =
                  Append(@, Entry(clock[s] + 1, IF i \in coll[s] THEN "d" ELSE "i", i))]
    /\ coll' = [coll EXCEPT ![s] = IF i \in @ THEN @ \ {i} ELSE @ \cup {i}]
    /\ clock' = [clock EXCEPT ![s] = @ + 1]
    /\ UNCHANGED <<catalogue, failovers, sinkVars, cfgVars, apiVars, fan, lockVars, oplog_progress,
                   file, tailVars, supVars, histVars>>

\* the log entry of a write the chunk balancer makes
MigrateEntry(ts, op, id) == [Entry(ts, op, id) EXCEPT !.fromMigrate = TRUE]

\* moveChunk, first half: the receiving shard t copies document i of NS from
\* shard s; its primary logs the insert with fromMigrate.
MigrateCopy(s, t, i) ==
    /\ s \in catalogue /\ t \in catalogue /\ s # t
    /\ i \in coll[s] /\ i \in Ids
    /\ \A u \in Shards : Incoming(i) \notin coll[u]
    /\ LogTotal < MaxLog
    /\ log' = [log EXCEPT ![t] = Append(@, MigrateEntry(clock[t] + 1, "i", i))]
    /\ coll' = [coll EXCEPT ![t] = @ \cup {Incoming(i)}]
    /\ clock' = [clock EXCEPT ![t] = @ + 1]
    /\ UNCHANGED <<catalogue, failovers, sinkVars, cfgVars, apiVars, fan, lockVars, oplog_progress,
                   file, tailVars, supVars, histVars>>

\* moveChunk succeeds: shard t owns the document, the donor s deletes its
\* copy and logs the delete with fromMigrate.
MigrateCommit(s, t, i) ==
    /\ s \in catalogue /\ t \in catalogue
    /\ i \in coll[s] /\ Incoming(i) \in coll[t]
    /\ LogTotal < MaxLog
    /\ log' = [log EXCEPT ![s] = Append(@, MigrateEntry(clock[s] + 1, "d", i))]
    /\ coll' = [coll EXCEPT ![s] = @ \ {i}, ![t] = (@ \ {Incoming(i)}) \cup {i}]
    /\ clock' = [clock EXCEPT ![s] = @ + 1]
    /\ UNCHANGED <<catalogue, failovers, sinkVars, cfgVars, apiVars, fan, lockVars, oplog_progress,
                   file, tailVars, supVars, histVars>>

\* moveChunk fails: the receiving shard t deletes what it copied and logs the
\* delete with fromMigrate; the donor keeps the document.
MigrateAbort(t, i) ==
    /\ t \in catalogue /\ Incoming(i) \in coll[t]
    /\ LogTotal < MaxLog
    /\ log' = [log EXCEPT ![t] = Append(@, MigrateEntry(clock[t] + 1, "d", i))]
    /\ coll' = [coll EXCEPT ![t] = @ \ {Incoming(i)}]
    /\ clock' = [clock EXCEPT ![t] = @ + 1]
    /\ UNCHANGED <<catalogue, failovers, sinkVars, cfgVars, apiVars, fan, lockVars, oplog_progress,
                   file, tailVars, supVars, histVars>>

\* The primary logs a no-op (the periodic marker).
SourceNoop(s) ==
    /\ s \in catalogue
    /\ LogTotal < MaxLog
    /\ log' = [log EXCEPT ![s] = Append(@, Entry(clock[s] + 1, "n", None))]
    /\ clock' = [clock EXCEPT ![s] = @ + 1]
    /\ UNCHANGED <<coll, catalogue, failovers, sinkVars, cfgVars, apiVars, fan, lockVars, oplog_progress,
                   file, tailVars, supVars, histVars>>

\* ----------------------------------------------------------------- Tailer
\* OplogThread, from spec.md 4.3 (its source file is not in src/).
Live == {"init", "dumping", "tailing", "rolling_back"}

\* 5 Shared resources: a Tailer writes the Progress Map inside the map's
\* exclusive section, and blocks on the mutex while another thread holds it.
MapFree == lock = "free"

\* 4.4: no sink has received the Tailer's current write event
FanIdle == [k |-> 0, ok |-> TRUE, chunk |-> {}]
NumSinks == Cardinality(Sinks)

\* 4.3.2: entries dropped without dispatch
\* a filter that lets every namespace through
IncludedAlways(ns) == TRUE

\* 4.3.2: the namespace is in the included set; with an empty set, it is not
\* a system or config namespace
Included(ns) ==
    IF ns_set = <<>> THEN ns \notin {SystemNS, ConfigNS} ELSE ns \in Range(ns_set)

\* a Tailer that applies the balancer's writes like any other
DroppedKeepsMigrate(e) == ~Included(e.ns) \/ e.op \notin {"i", "d"}

\* 4.3.2: the entry is dropped without dispatch
Dropped(e) == e.fromMigrate \/ ~Included(e.ns) \/ e.op \notin {"i", "d"}

\* the rename map main() builds: dest_ns_set defaults to ns_set
dest_mapping ==
    zip_dict(ns_set, IF dest_ns_set.none THEN ns_set ELSE dest_ns_set.list)

\* main() exits unless the two lists have the same length and no duplicates
NamespacesAccepted(nss, dest) ==
    LET d == IF dest.none THEN nss ELSE dest.list
    IN /\ Len(d) = Len(nss)
       /\ Cardinality(Range(nss)) + Cardinality(Range(d)) = 2 * Len(nss)

\* 4.3.2: "Rewrite namespace via the rename map before dispatch."
Renamed(ns) == IF ns \in DOMAIN dest_mapping THEN dest_mapping[ns] ELSE ns

\* a Tailer that hands over the whole document
ProjectedKeepsAll(keys) == keys

\* 4.3.2: "Apply field projection to payloads": the listed fields of the
\* document, and its _id
Projected(keys) ==
    IF fields.none THEN keys ELSE (keys \cap Range(fields.list)) \cup {"_id"}

\* the document of id i as the Tailer hands it to a sink
Payload(i) ==
    [id |-> i, keys |-> Projected(KeysOf(i)), upsert_exception |-> i \in poison]

\* 4.3.2 dispatch by op: insert -> upsert, delete -> remove
DispatchOne(dm, e) ==
    IF e.op = "d"
    THEN remove(dm, e.id, Renamed(e.ns), e.ts)
    ELSE upsert(dm, Payload(e.id), Renamed(e.ns), e.ts)

\* 4.3.2: "After each successful dispatch, the Tailer updates its local
\* position counter."
PositionAfter(last, e, ok) == IF ok THEN e.ts ELSE last

\* a cursor whose initial read does not discard the entry at the checkpoint
ResumeIndexKeepsFirst(lg, ts) ==
    IF IndexOf(lg, ts) > 1 THEN IndexOf(lg, ts) - 1 ELSE IndexOf(lg, ts)

\* 4.3.2: the cursor starts at the entry whose position equals the checkpoint,
\* which the initial read discards.
ResumeIndex(lg, ts) == IndexOf(lg, ts)

\* a cursor that yields the same entry again
NextIndexStuck(c) == c

\* the cursor moves to the next entry
NextIndex(c) == c + 1


\* 4.3.1 step 4: the checkpoint a finished dump sets
DumpCheckpoint(start, lg) == start

\* the effect of entry e is visible in sink dm
Shows(dm, e) ==
    IF e.op = "d"
    THEN /\ e.id \notin DOMAIN dm.doc_dict
         /\ e.id \in DOMAIN dm.removed_dict
         /\ dm.removed_dict[e.id].ts = e.ts
    ELSE /\ e.id \in DOMAIN dm.doc_dict
         /\ dm.doc_dict[e.id].ts = e.ts

\* a Tailer that dumps whenever collection-dump is true
WantsDumpAlways(ts, dump) == dump

\* 4.3: init -> dumping "if no checkpoint exists for this shard and
\* collection-dump is true"
WantsDump(ts, dump) == ts = None /\ dump

\* init -> tailing: a checkpoint exists for the shard.
InitResume(s) ==
    /\ state[s] = "init" /\ running[s]
    /\ oplog_progress[s] # None
    /\ checkpoint' = [checkpoint EXCEPT ![s] = oplog_progress[s]]
    /\ cursor' = [cursor EXCEPT ![s] = ResumeIndex(log[s], oplog_progress[s])]
    /\ state' = [state EXCEPT ![s] = "tailing"]
    /\ initpos' = [initpos EXCEPT ![s] = oplog_progress[s]]
    /\ how' = [how EXCEPT ![s] = "resume"]
    /\ found' = [found EXCEPT ![s] = oplog_progress[s]]
    /\ UNCHANGED <<srcVars, sinkVars, cfgVars, apiVars, fan, lockVars, oplog_progress, file,
                   running, last_ts, n, dump_start, dump_pos, supVars,
                   acked, lastDisp, dispN, dumped, dump_end,
                   sinceCursor, skipped, rollbacks>>

\* init -> dumping: no checkpoint and collection-dump; dump_start is read
\* before any collection.
InitDump(s) ==
    /\ state[s] = "init" /\ running[s]
    /\ WantsDump(oplog_progress[s], collection_dump)
    /\ dump_start' = [dump_start EXCEPT ![s] = get_last_oplog_timestamp(log[s])]
    /\ dump_pos' = [dump_pos EXCEPT ![s] = 0]
    /\ state' = [state EXCEPT ![s] = "dumping"]
    /\ how' = [how EXCEPT ![s] = "dump"]
    /\ found' = [found EXCEPT ![s] = oplog_progress[s]]
    /\ UNCHANGED <<srcVars, sinkVars, cfgVars, apiVars, fan, lockVars, oplog_progress, file,
                   running, checkpoint, cursor, last_ts, n, supVars,
                   acked, initpos, lastDisp, dispN, dumped, dump_end,
                   sinceCursor, skipped, rollbacks>>

\* init -> tailing: no checkpoint, collection-dump false, log non-empty: the
\* checkpoint is the last log position.
InitNoDump(s) ==
    /\ state[s] = "init" /\ running[s]
    /\ oplog_progress[s] = None
    /\ ~WantsDump(oplog_progress[s], collection_dump)
    /\ Len(log[s]) > 0
    /\ MapFree
    /\ LET ts == get_last_oplog_timestamp(log[s])
       IN /\ checkpoint' = [checkpoint EXCEPT ![s] = ts]
          /\ oplog_progress' = [oplog_progress EXCEPT ![s] = ts]
          /\ cursor' = [cursor EXCEPT ![s] = ResumeIndex(log[s], ts)]
          /\ initpos' = [initpos EXCEPT ![s] = ts]
          /\ skipped' = [skipped EXCEPT ![s] = ts]
    /\ state' = [state EXCEPT ![s] = "tailing"]
    /\ how' = [how EXCEPT ![s] = "nodump"]
    /\ found' = [found EXCEPT ![s] = oplog_progress[s]]
    /\ UNCHANGED <<srcVars, sinkVars, cfgVars, apiVars, fan, lockVars, file,
                   running, last_ts, n, dump_start, dump_pos, supVars,
                   acked, lastDisp, dispN, dumped, dump_end,
                   sinceCursor, rollbacks>>

\* init -> stopped(None): the log is empty and there is no checkpoint.
InitEmpty(s) ==
    /\ state[s] = "init" /\ running[s]
    /\ oplog_progress[s] = None
    /\ ~WantsDump(oplog_progress[s], collection_dump)
    /\ Len(log[s]) = 0
    /\ state' = [state EXCEPT ![s] = "stopped"]
    /\ running' = [running EXCEPT ![s] = FALSE]
    /\ how' = [how EXCEPT ![s] = "nodump"]
    /\ found' = [found EXCEPT ![s] = oplog_progress[s]]
    /\ UNCHANGED <<srcVars, sinkVars, cfgVars, apiVars, fan, lockVars, oplog_progress, file,
                   checkpoint, cursor, last_ts, n, dump_start, dump_pos, supVars,
                   acked, initpos, lastDisp, dispN, dumped, dump_end,
                   sinceCursor, skipped, rollbacks>>

\* the next chunk of the dump: at most size documents of one included
\* namespace, in id order
DumpChunk(docs, pos, size) ==
    LET rest == {i \in docs : i > pos /\ Included(NsOf(i))}
        raw == {i \in rest : Cardinality({j \in rest : j < i}) < size}
    IN {i \in raw : NsOf(i) = NsOf(Min(raw))}

\* bulk_upsert(docs, namespace, timestamp): DocManagerBase upserts each document
RECURSIVE bulk_upsert(_, _, _, _)
bulk_upsert(dm, docs, namespace, timestamp) ==
    IF docs = {}
    THEN [raised |-> FALSE, dm |-> dm]
    ELSE LET i == Min(docs)
             r == upsert(dm, Payload(i), namespace, timestamp)
         IN IF r.raised THEN r
            ELSE bulk_upsert(r.dm, docs \ {i}, namespace, timestamp)

\* 4.3.1 step 2: one chunk of documents, stamped with dump_start, goes to
\* every sink.
DumpBatch(s) ==
    /\ state[s] = "dumping" /\ running[s]
    /\ dump_start[s] # None
    /\ LET chunk == DumpChunk(coll[s], dump_pos[s], batch_size)
       IN /\ chunk # {}
          /\ dms' = [k \in Sinks |->
                        bulk_upsert(dms[k], chunk, Renamed(NsOf(Min(chunk))), dump_start[s]).dm]
          /\ dump_pos' = [dump_pos EXCEPT ![s] = Max(chunk)]
          /\ dumped' = [dumped EXCEPT ![s] = @ \cup chunk]
    /\ UNCHANGED <<srcVars, dm_stopped, cfgVars, apiVars, fan, lockVars, oplog_progress, file,
                   state, running, checkpoint, cursor, last_ts, n, dump_start,
                   supVars, acked, how, found, initpos, lastDisp, dispN, dump_end,
                   sinceCursor, skipped, rollbacks>>

\* dumping -> tailing: the checkpoint is dump_start.
DumpDone(s) ==
    /\ state[s] = "dumping" /\ running[s]
    /\ dump_start[s] # None
    /\ fan[s].k = 0
    /\ DumpChunk(coll[s], dump_pos[s], batch_size) = {}
    /\ MapFree
    /\ LET ts == DumpCheckpoint(dump_start[s], log[s])
       IN /\ checkpoint' = [checkpoint EXCEPT ![s] = ts]
          /\ oplog_progress' = [oplog_progress EXCEPT ![s] = ts]
          /\ cursor' = [cursor EXCEPT ![s] = ResumeIndex(log[s], ts)]
          /\ initpos' = [initpos EXCEPT ![s] = ts]
    /\ state' = [state EXCEPT ![s] = "tailing"]
    /\ acked' = [acked EXCEPT ![s] = dump_start[s]]
    /\ dump_end' = [dump_end EXCEPT ![s] = get_last_oplog_timestamp(log[s])]
    /\ UNCHANGED <<srcVars, sinkVars, cfgVars, apiVars, fan, lockVars, file,
                   running, last_ts, n, dump_start, dump_pos, supVars,
                   how, found, lastDisp, dispN, dumped,
                   sinceCursor, skipped, rollbacks>>

\* dump_collection() returns None on an empty log: stopped(None).
DumpEmpty(s) ==
    /\ state[s] = "dumping" /\ running[s]
    /\ dump_start[s] = None
    /\ state' = [state EXCEPT ![s] = "stopped"]
    /\ running' = [running EXCEPT ![s] = FALSE]
    /\ UNCHANGED <<srcVars, sinkVars, cfgVars, apiVars, fan, lockVars, oplog_progress, file,
                   checkpoint, cursor, last_ts, n, dump_start, dump_pos, supVars,
                   histVars>>

\* 4.3.2: the Tailer reads the next entry, drops or dispatches it to every
\* sink, updates its position counter, and publishes every batch_size entries.
TailApply(s) ==
    /\ state[s] = "tailing" /\ running[s]
    /\ cursor[s] > 0 /\ cursor[s] < Len(log[s])
    /\ LET e == log[s][cursor[s] + 1]
           res == [k \in Sinks |-> DispatchOne(dms[k], e)]
           ok == ~Dropped(e) /\ \A k \in Sinks : ~res[k].raised
           pos == PositionAfter(last_ts[s], e, ok)
           cnt == n[s] + 1
           publish == cnt >= batch_size /\ pos # None
       IN /\ publish => MapFree
          /\ cursor' = [cursor EXCEPT ![s] = NextIndex(@)]
          /\ dms' = IF Dropped(e) THEN dms ELSE [k \in Sinks |-> res[k].dm]
          /\ last_ts' = [last_ts EXCEPT ![s] = pos]
          /\ n' = [n EXCEPT ![s] = IF cnt >= batch_size THEN 0 ELSE cnt]
          /\ checkpoint' = IF publish THEN [checkpoint EXCEPT ![s] = pos] ELSE checkpoint
          /\ oplog_progress' =
                 IF publish THEN [oplog_progress EXCEPT ![s] = pos] ELSE oplog_progress
          /\ acked' = IF ~Dropped(e) /\ \A k \in Sinks : Shows(dms'[k], e)
                      THEN [acked EXCEPT ![s] = e.ts] ELSE acked
          /\ lastDisp' = IF Dropped(e) THEN lastDisp
                         ELSE [lastDisp EXCEPT ![s] = [k \in Sinks |-> e.ts]]
          /\ dispN' = IF Dropped(e) THEN dispN ELSE [dispN EXCEPT ![s] = @ + 1]
          /\ sinceCursor' = IF Dropped(e) THEN sinceCursor
                            ELSE [sinceCursor EXCEPT ![s] = @ + 1]
    /\ UNCHANGED <<srcVars, dm_stopped, cfgVars, apiVars, fan, lockVars, file, state, running,
                   dump_start, dump_pos, supVars, how, found, initpos, dumped,
                   dump_end, skipped, rollbacks>>

\* 4.3.2: the cursor would block: the Tailer publishes its position.
TailBlock(s) ==
    /\ state[s] = "tailing" /\ running[s]
    /\ cursor[s] > 0 /\ cursor[s] = Len(log[s])
    /\ n[s] > 0
    /\ last_ts[s] # None => MapFree
    /\ n' = [n EXCEPT ![s] = 0]
    /\ checkpoint' = IF last_ts[s] # None
                     THEN [checkpoint EXCEPT ![s] = last_ts[s]] ELSE checkpoint
    /\ oplog_progress' = IF last_ts[s] # None
                         THEN [oplog_progress EXCEPT ![s] = last_ts[s]]
                         ELSE oplog_progress
    /\ UNCHANGED <<srcVars, sinkVars, cfgVars, apiVars, fan, lockVars, file, state, running, cursor,
                   last_ts, dump_start, dump_pos, supVars, histVars>>

\* ------------------------------------------------- fan-out, sink by sink
\* 4.4: the write event reaches the sinks one after the other, in declaration
\* order.  4.3.1 step 2 for the next sink: bulk_upsert of the chunk.  Step 3:
\* a failure aborts the Tailer, or with continue-on-error is logged and the
\* rest of the batch skipped for that sink.
DumpDispatch(s) ==
    /\ state[s] = "dumping" /\ running[s]
    /\ dump_start[s] # None
    /\ LET chunk == IF fan[s].k = 0 THEN DumpChunk(coll[s], dump_pos[s], batch_size)
                    ELSE fan[s].chunk
           k == fan[s].k + 1
           r == bulk_upsert(dms[k], chunk, Renamed(NsOf(Min(chunk))), dump_start[s])
           last == k = NumSinks
           ok == fan[s].ok /\ ~r.raised
           abort == r.raised /\ ~continue_on_error
       IN /\ chunk # {}
          /\ dms' = [dms EXCEPT ![k] = r.dm]
          /\ state' = IF abort THEN [state EXCEPT ![s] = "stopped"] ELSE state
          /\ running' = IF abort THEN [running EXCEPT ![s] = FALSE] ELSE running
          /\ fan' = [fan EXCEPT ![s] = IF abort \/ last THEN FanIdle
                                       ELSE [k |-> k, ok |-> ok, chunk |-> chunk]]
          /\ dump_pos' = IF last /\ ~abort
                         THEN [dump_pos EXCEPT ![s] = Max(chunk)] ELSE dump_pos
          /\ dumped' = IF last /\ ok
                       THEN [dumped EXCEPT ![s] = @ \cup chunk] ELSE dumped
    /\ UNCHANGED <<srcVars, dm_stopped, cfgVars, apiVars, lockVars, oplog_progress, file,
                   checkpoint, cursor, last_ts, n, dump_start,
                   supVars, acked, how, found, initpos, lastDisp, dispN, dump_end,
                   sinceCursor, skipped, rollbacks>>

\* 4.3.2 for the next sink: the entry under the cursor is dropped, or
\* dispatched to the next sink; after the last sink the Tailer moves on,
\* updates its position counter and publishes every batch_size entries.
TailDispatch(s) ==
    /\ state[s] = "tailing" /\ running[s]
    /\ cursor[s] > 0 /\ cursor[s] < Len(log[s])
    /\ LET e == log[s][cursor[s] + 1]
           k == fan[s].k + 1
           r == DispatchOne(dms[k], e)
           last == Dropped(e) \/ k = NumSinks
           ok == ~Dropped(e) /\ fan[s].ok /\ ~r.raised
           pos == PositionAfter(last_ts[s], e, ok)
           cnt == n[s] + 1
           publish == last /\ cnt >= batch_size /\ pos # None
       IN /\ publish => MapFree
          /\ dms' = IF Dropped(e) THEN dms ELSE [dms EXCEPT ![k] = r.dm]
          /\ fan' = [fan EXCEPT ![s] = IF last THEN FanIdle
                                       ELSE [k |-> k, ok |-> ok, chunk |-> {}]]
          /\ cursor' = IF last THEN [cursor EXCEPT ![s] = NextIndex(@)] ELSE cursor
          /\ last_ts' = IF last THEN [last_ts EXCEPT ![s] = pos] ELSE last_ts
          /\ n' = IF last THEN [n EXCEPT ![s] = IF cnt >= batch_size THEN 0 ELSE cnt]
                  ELSE n
          /\ checkpoint' = IF publish THEN [checkpoint EXCEPT ![s] = pos] ELSE checkpoint
          /\ oplog_progress' =
                 IF publish THEN [oplog_progress EXCEPT ![s] = pos] ELSE oplog_progress
          /\ acked' = IF last /\ ~Dropped(e) /\ \A j \in Sinks : Shows(dms'[j], e)
                      THEN [acked EXCEPT ![s] = e.ts] ELSE acked
          /\ lastDisp' = IF Dropped(e) THEN lastDisp
                         ELSE [lastDisp EXCEPT ![s][k] = e.ts]
          /\ dispN' = IF last /\ ~Dropped(e) THEN [dispN EXCEPT ![s] = @ + 1] ELSE dispN
          /\ sinceCursor' = IF last /\ ~Dropped(e)
                            THEN [sinceCursor EXCEPT ![s] = @ + 1] ELSE sinceCursor
    /\ UNCHANGED <<srcVars, dm_stopped, cfgVars, apiVars, lockVars, file, state, running,
                   dump_start, dump_pos, supVars, how, found, initpos, dumped,
                   dump_end, skipped, rollbacks>>

\* ------------------------------------------------- failover and rollback
\* the documents of the shard once the entries after index j are undone
RECURSIVE Undo(_, _, _, _)
Undo(c, lg, k, j) ==
    IF k <= j THEN c
    ELSE LET e == lg[k]
             c1 == IF e.op = "i" THEN c \ {e.id}
                   ELSE IF e.op = "d" THEN c \cup {e.id}
                   ELSE c
         IN Undo(c1, lg, k - 1, j)

\* The primary of shard s changes under a Tailer at work: the new primary
\* holds the first j entries of the log (all of them when nothing is lost), and
\* the Tailer's cursor is lost.
Failover(s, j) ==
    /\ s \in catalogue
    /\ state[s] \in {"dumping", "tailing"}
    /\ failovers < MaxFailovers
    /\ j \in 1..Len(log[s])
    /\ log' = [log EXCEPT ![s] = SubSeq(@, 1, j)]
    /\ coll' = [coll EXCEPT ![s] = Undo(@, log[s], Len(log[s]), j)]
    /\ failovers' = failovers + 1
    /\ cursor' = [cursor EXCEPT ![s] = 0]
    /\ UNCHANGED <<clock, catalogue, sinkVars, cfgVars, apiVars, fan, lockVars, oplog_progress, file,
                   state, running, checkpoint, last_ts, n, dump_start, dump_pos,
                   supVars, histVars>>

\* The capped log of shard s rolls over under a Tailer at work: its entries
\* before index i are gone (the documents stay), and the Tailer's cursor is lost.
Truncation(s, i) ==
    /\ s \in catalogue
    /\ state[s] \in {"dumping", "tailing"}
    /\ failovers < MaxFailovers
    /\ i \in 2..Len(log[s])
    /\ log' = [log EXCEPT ![s] = SubSeq(@, i, Len(@))]
    /\ failovers' = failovers + 1
    /\ cursor' = [cursor EXCEPT ![s] = 0]
    /\ UNCHANGED <<coll, clock, catalogue, sinkVars, cfgVars, apiVars, fan, lockVars, oplog_progress,
                   file, state, running, checkpoint, last_ts, n, dump_start, dump_pos,
                   supVars, histVars>>

\* a Tailer that reconciles on every lost cursor, without looking for the
\* entry at its checkpoint
TailReconnectAlwaysRollsBack(s) ==
    /\ state[s] = "tailing" /\ running[s]
    /\ cursor[s] = 0
    /\ state' = [state EXCEPT ![s] = "rolling_back"]
    /\ last_ts' = [last_ts EXCEPT ![s] = None]
    /\ n' = [n EXCEPT ![s] = 0]
    /\ sinceCursor' = [sinceCursor EXCEPT ![s] = 0]
    /\ UNCHANGED <<srcVars, sinkVars, cfgVars, apiVars, fan, lockVars, oplog_progress, file,
                   running, checkpoint, cursor, dump_start, dump_pos, supVars,
                   acked, how, found, initpos, lastDisp, dispN, dumped, dump_end,
                   skipped, rollbacks>>

\* 4.3 tailing: the cursor is lost; the Tailer looks for the entry at its last
\* checkpointed position.  Found: it reads on strictly after the checkpoint.
\* Not found: tailing -> rolling_back.
TailReconnect(s) ==
    /\ state[s] = "tailing" /\ running[s]
    /\ cursor[s] = 0
    /\ IF checkpoint[s] \in Positions(log[s])
       THEN /\ cursor' = [cursor EXCEPT ![s] = ResumeIndex(log[s], checkpoint[s])]
            /\ state' = state
       ELSE /\ state' = [state EXCEPT ![s] = "rolling_back"]
            /\ cursor' = cursor
    /\ last_ts' = [last_ts EXCEPT ![s] = None]
    /\ n' = [n EXCEPT ![s] = 0]
    /\ sinceCursor' = [sinceCursor EXCEPT ![s] = 0]
    /\ UNCHANGED <<srcVars, sinkVars, cfgVars, apiVars, fan, lockVars, oplog_progress, file,
                   running, checkpoint, dump_start, dump_pos, supVars,
                   acked, how, found, initpos, lastDisp, dispN, dumped, dump_end,
                   skipped, rollbacks>>

\* 4.3.3 step 1: T_sink, from every sink's get_last_doc(); the minimum when the
\* sinks disagree.  None when a sink has nothing to return.
T_sink(sinks) ==
    IF \E k \in Sinks : get_last_doc(sinks[k]).raised THEN None
    ELSE Min({get_last_doc(sinks[k]).ts : k \in Sinks})

\* 4.3.3 step 2
T_safe(tsink, lg) == Min({tsink, lg[1].ts})

\* 4.3.3 step 3, for one sink: every document search returns is removed; a
\* remove that raises OperationFailed is logged and the next one is tried.
RECURSIVE RemoveAll(_, _, _)
RemoveAll(dm, docs, ts) ==
    IF docs = {} THEN dm
    ELSE LET d == CHOOSE x \in docs : \A y \in docs : x.id <= y.id
         IN RemoveAll(remove(dm, d.id, d.ns, ts).dm,
                      {x \in docs : x.id # d.id}, ts)

\* 4.3.3: rolling_back -> tailing.  With nothing in a sink the shard is fresh
\* and the Tailer jumps to the log's tail.
Rollback(s) ==
    /\ state[s] = "rolling_back" /\ running[s]
    /\ MapFree
    /\ LET tsink == T_sink(dms)
           fresh == tsink = None
           ts == IF fresh THEN get_last_oplog_timestamp(log[s])
                 ELSE T_safe(tsink, log[s])
       IN /\ dms' = IF fresh THEN dms
                    ELSE [k \in Sinks |->
                            RemoveAll(dms[k], search(dms[k], ts, tsink), ts)]
          /\ checkpoint' = [checkpoint EXCEPT ![s] = ts]
          /\ oplog_progress' = [oplog_progress EXCEPT ![s] = ts]
          /\ cursor' = [cursor EXCEPT ![s] = ResumeIndex(log[s], ts)]
          /\ skipped' = IF fresh THEN [skipped EXCEPT ![s] = ts] ELSE skipped
          /\ acked' = [acked EXCEPT ![s] = IF fresh THEN None ELSE ts]
          \* a Tailer that cannot open a cursor after reconciliation exits
          /\ state' = [state EXCEPT ![s] =
                          IF ts \in Positions(log[s]) THEN "tailing" ELSE "stopped"]
          /\ running' = [running EXCEPT ![s] = ts \in Positions(log[s])]
    /\ last_ts' = [last_ts EXCEPT ![s] = None]
    /\ n' = [n EXCEPT ![s] = 0]
    /\ sinceCursor' = [sinceCursor EXCEPT ![s] = 0]
    /\ rollbacks' = [rollbacks EXCEPT ![s] = @ + 1]
    /\ UNCHANGED <<srcVars, dm_stopped, cfgVars, apiVars, fan, lockVars, file, dump_start, dump_pos,
                   supVars, how, found, initpos, lastDisp, dispN, dumped,
                   dump_end>>

\* any -> stopping: the Tailer polls its flag between entries and batches.
TailStopping(s) ==
    /\ state[s] \in Live /\ ~running[s]
    /\ state' = [state EXCEPT ![s] = "stopping"]
    /\ UNCHANGED <<srcVars, sinkVars, cfgVars, apiVars, fan, lockVars, oplog_progress, file,
                   running, checkpoint, cursor, last_ts, n, dump_start, dump_pos,
                   supVars, histVars>>

\* stopping -> stopped: the thread exits.
TailStopped(s) ==
    /\ state[s] = "stopping"
    /\ state' = [state EXCEPT ![s] = "stopped"]
    /\ UNCHANGED <<srcVars, sinkVars, cfgVars, apiVars, fan, lockVars, oplog_progress, file,
                   running, checkpoint, cursor, last_ts, n, dump_start, dump_pos,
                   supVars, histVars>>

Source == \E s \in Shards :
              \/ SourceNoop(s)
              \/ \E i \in Ids : SourceInsert(s, i) \/ SourceDelete(s, i)

\* a Tailer on a shard whose log holds entries
TailerRunLogged == \E s \in Shards :
                       \/ InitResume(s) \/ InitDump(s) \/ InitNoDump(s)
                       \/ DumpBatch(s) \/ DumpDone(s)
                       \/ TailApply(s) \/ TailBlock(s)

\* a Tailer that finds the log of its shard empty
TailerRunEmpty == \E s \in Shards : InitEmpty(s) \/ DumpEmpty(s)

TailerRun == TailerRunLogged \/ TailerRunEmpty

TailerStop == \E s \in Shards : TailStopping(s) \/ TailStopped(s)

\* The shards of a cluster are alike: it is s1's primary that changes; in a
\* replica-set deployment it is the primary of the set.
FailoversSharded == \E j \in 1..MaxLog : Failover("s1", j)
FailoversReplSet == \E j \in 1..MaxLog : Failover("0", j)

TailerRecover == \E s \in Shards : TailReconnect(s) \/ Rollback(s)

\* ------------------------------------------------- the Tailers on their own
\* Two OplogThreads built and started directly on the two shards, sharing the
\* sinks and the Progress Map (tests/test_oplog_manager_sharded.py setUpClass).
\* What a shard and its Tailer's share of the sinks look like at start:
\*   fresh    empty log, nothing replicated
\*   marker   the log holds the startup marker; documents may exist already
\*   resumeM  restart: the checkpoint is the marker's position
\*   resumeI  restart: the log holds the marker and an insert that the
\*            previous run applied to every sink; the checkpoint is the
\*            insert's position
\*   resumeP  restart after a crash in mid-dispatch: as resumeI, but the
\*            insert reached the first sink only and was not checkpointed
\*            (used where the sinks have to disagree)
Scenarios == {"fresh", "marker", "resumeM", "resumeI"}
FirstId(s) == Min(IdsOf(s))
ScenLog(s, sc) ==
    CASE sc = "fresh" -> <<>>
      [] sc \in {"resumeI", "resumeP"} ->
             <<Entry(1, "n", None), Entry(2, "i", FirstId(s))>>
      [] OTHER -> <<Entry(1, "n", None)>>
ScenProgress(sc) ==
    IF sc \in {"resumeM", "resumeP"} THEN 1 ELSE IF sc = "resumeI" THEN 2 ELSE None
ScenSink(k, cat, scen) ==
    LET held == {FirstId(s) : s \in {t \in cat : \/ scen[t] = "resumeI"
                                                 \/ scen[t] = "resumeP" /\ k = 1}}
    IN [doc_dict |-> [i \in held |-> [id |-> i, ns |-> NS, ts |-> 2,
                                      keys |-> KeysOf(i) \cup {"ns", "_ts"}]],
        removed_dict |-> EmptyDict]

\* the Progress Map the previous run left
PrevProgress(cat, scen) ==
    [s \in Shards |-> IF s \in cat THEN ScenProgress(scen[s]) ELSE None]

InitShards(cat, scen, docs) ==
    /\ catalogue = cat
    /\ log = [s \in Shards |-> IF s \in cat THEN ScenLog(s, scen[s]) ELSE <<>>]
    /\ clock = [s \in Shards |-> Len(log[s])]
    /\ coll = [s \in Shards |->
                 IF s \notin cat THEN {}
                 ELSE IF scen[s] \in {"resumeI", "resumeP"} THEN {FirstId(s)}
                 ELSE IF scen[s] = "marker" THEN docs[s]
                 ELSE {}]
    /\ dms = [k \in Sinks |-> ScenSink(k, cat, scen)]
    /\ dm_stopped = [k \in Sinks |-> FALSE]
    /\ checkpoint = [s \in Shards |-> None]
    /\ cursor = [s \in Shards |-> 0]
    /\ last_ts = [s \in Shards |-> None]
    /\ n = [s \in Shards |-> 0]
    /\ dump_start = [s \in Shards |-> None]
    /\ dump_pos = [s \in Shards |-> 0]
    /\ acked = PrevProgress(cat, scen)
    /\ how = [s \in Shards |-> ""]
    /\ found = [s \in Shards |-> None]
    /\ initpos = [s \in Shards |-> None]
    /\ lastDisp = [s \in Shards |-> [k \in Sinks |-> None]]
    /\ dispN = [s \in Shards |-> 0]
    /\ dumped = [s \in Shards |-> {}]
    /\ dump_end = [s \in Shards |-> None]
    /\ sinceCursor = [s \in Shards |-> 0]
    /\ skipped = [s \in Shards |-> None]
    /\ rollbacks = [s \in Shards |-> 0]
    /\ failovers = 0
    /\ lock = "free"
    /\ flush_iter = <<>>
    /\ snap_map = EmptyProgress
    /\ fan = [s \in Shards |-> FanIdle]

InitDirectWith(scenarios, coe, bad, old) ==
    /\ \E sc1, sc2 \in scenarios \cup {"fresh"},
          d1 \in SUBSET (IdsOf("s1") \cup old), d2 \in SUBSET IdsOf("s2") :
           LET scen == [s \in Shards |-> IF s = "s1" THEN sc1
                                        ELSE IF s = "s2" THEN sc2 ELSE "fresh"]
               docs == [s \in Shards |-> IF s = "s1" THEN d1
                                        ELSE IF s = "s2" THEN d2 ELSE {}]
           IN /\ sc1 # "marker" => d1 = {}
              /\ sc2 # "marker" => d2 = {}
              /\ InitShards({"s1", "s2"}, scen, docs)
              /\ oplog_progress = PrevProgress({"s1", "s2"}, scen)
    /\ collection_dump \in BOOLEAN
    /\ batch_size \in BatchSizes
    /\ continue_on_error \in coe
    /\ poison \in bad
    /\ file = <<>>
    /\ state = [s \in Shards |-> IF s \in catalogue THEN "init" ELSE "none"]
    /\ running = [s \in Shards |-> s \in catalogue]
    /\ mode = "SHARDED"
    /\ can_run = TRUE
    /\ sup_pc = "off"
    /\ shard_set = catalogue
    /\ iter = <<>>
    /\ join_pc = "off"
    /\ snap_rb = [s \in Shards |-> 0]

\* continue-on-error is off by default (connector.py:582), and no document
\* carries '_upsert_exception'
InitDirect(scenarios) ==
    /\ InitDirectWith(scenarios, {FALSE}, {{}}, {})
    /\ ns_set = <<NS>>
    /\ dest_ns_set = NoOption /\ fields = NoOption /\ NoBench

InitTailers == InitDirect(Scenarios)

NextTailers == Source \/ TailerRun

SpecTailers == InitTailers /\ [][NextTailers]_vars

\* ---------------------------------------- the Tailers through a failover
\* (no log is empty, and a failover leaves at least the first entry)
NextFailover == Source \/ TailerRunLogged \/ FailoversSharded \/ TailerRecover

\* both shards hold a log when their Tailers start
InitFailover == InitDirect({"marker", "resumeI"}) /\ \A s \in catalogue : log[s] # <<>>

SpecFailover == InitFailover /\ [][NextFailover]_vars

\* ------------------------------------------------------------- Supervisor
\* Connector (connector.py).  The checkpoint file is the sequence of the
\* strings written to it, one JSON array [str(oplog), long] per write.
RECURSIVE Chunks(_, _)
Chunks(prog, i) ==
    IF i > Len(ShardOrder) THEN <<>>
    ELSE LET s == ShardOrder[i]
         IN (IF prog[s] # None THEN <<<<s, bson_ts_to_long(prog[s])>>>> ELSE <<>>)
                \o Chunks(prog, i + 1)

\* a flush that opens the file for writing and writes nothing
write_oplog_progress_nothing(prog) == <<>>

\* write_oplog_progress(): the file is rewritten with one array per entry of
\* the Progress Map, read under the map's lock; the backup copy made before is
\* removed afterwards.
write_oplog_progress(prog) == Chunks(prog, 1)

\* read_oplog_progress(): an empty file and a file json.load cannot parse
\* (more than one array) leave the map as it is; otherwise data[count],
\* data[count + 1] are read pairwise into the map.
read_oplog_progress(f, prog) ==
    IF Len(f) # 1 THEN prog
    ELSE LET data == f[1]
             at(s) == {c \in 1..Len(data) : c % 2 = 1 /\ data[c] = s}
         IN [s \in Shards |->
                IF at(s) = {} THEN prog[s]
                ELSE long_to_bson_ts(data[Max(at(s)) + 1])]

\* the position the file holds for shard s
FilePos(f, s) ==
    LET at == {i \in 1..Len(f) : f[i][1] = s}
    IN IF at = {} THEN None ELSE long_to_bson_ts(f[Max(at)][2])

\* the order in which shard_set.values() is run through
RECURSIVE InOrder(_, _)
InOrder(set, i) ==
    IF i > Len(ShardOrder) THEN <<>>
    ELSE (IF ShardOrder[i] \in set THEN <<ShardOrder[i]>> ELSE <<>>)
             \o InOrder(set, i + 1)

\* run(), line 200: the checkpoint file is loaded into the Progress Map.
RunLoad ==
    /\ sup_pc = "start"
    /\ oplog_progress' = read_oplog_progress(file, oplog_progress)
    /\ sup_pc' = "probe"
    /\ UNCHANGED <<srcVars, sinkVars, cfgVars, apiVars, fan, lockVars, file, tailVars,
                   mode, can_run, shard_set, iter, join_pc, snap_rb, histVars>>

\* run(), lines 208-216: isMaster names no replica set.
RunNoReplSet ==
    /\ sup_pc = "probe" /\ mode = "STANDALONE"
    /\ sup_pc' = "returned"
    /\ UNCHANGED <<srcVars, sinkVars, cfgVars, apiVars, fan, lockVars, oplog_progress, file, tailVars,
                   mode, can_run, shard_set, iter, join_pc, snap_rb, histVars>>

\* run() building and starting the Tailer before anything is loaded
RunReplSetUnloaded ==
    /\ sup_pc = "start" /\ mode = "REPLSET"
    /\ shard_set' = shard_set \cup {"0"}
    /\ state' = [state EXCEPT !["0"] = "init"]
    /\ running' = [running EXCEPT !["0"] = TRUE]
    /\ sup_pc' = "repl_loop"
    /\ UNCHANGED <<srcVars, sinkVars, cfgVars, apiVars, fan, lockVars, oplog_progress, file,
                   checkpoint, cursor, last_ts, n, dump_start, dump_pos,
                   mode, can_run, iter, join_pc, snap_rb, histVars>>

\* run(), lines 228-248: the Tailer of the replica set is built and started.
RunReplSet ==
    /\ sup_pc = "probe" /\ mode = "REPLSET"
    /\ shard_set' = shard_set \cup {"0"}
    /\ state' = [state EXCEPT !["0"] = "init"]
    /\ running' = [running EXCEPT !["0"] = TRUE]
    /\ sup_pc' = "repl_loop"
    /\ UNCHANGED <<srcVars, sinkVars, cfgVars, apiVars, fan, lockVars, oplog_progress, file,
                   checkpoint, cursor, last_ts, n, dump_start, dump_pos,
                   mode, can_run, iter, join_pc, snap_rb, histVars>>

\* run(), lines 250-261: one turn of the replica-set loop.
ReplLoop ==
    /\ sup_pc = "repl_loop"
    /\ IF ~can_run
       THEN /\ sup_pc' = "join_final"
            /\ iter' = InOrder(shard_set, 1)
            /\ UNCHANGED <<file, snap_rb>>
       ELSE IF ~running["0"]
       THEN /\ sup_pc' = "join_abort"
            /\ iter' = InOrder(shard_set, 1)
            /\ UNCHANGED <<file, snap_rb>>
       ELSE /\ file' = write_oplog_progress(oplog_progress)
            /\ snap_rb' = rollbacks
            /\ UNCHANGED <<sup_pc, iter>>
    /\ UNCHANGED <<srcVars, sinkVars, cfgVars, apiVars, fan, lockVars, oplog_progress, tailVars,
                   mode, can_run, shard_set, join_pc, histVars>>

\* run(), lines 264-266: "while self.can_run is True", then the catalogue is
\* queried.
ShardedWhile ==
    /\ sup_pc \in {"probe", "while"} /\ mode = "SHARDED"
    /\ IF can_run
       THEN /\ sup_pc' = "for"
            /\ iter' = InOrder(catalogue, 1)
       ELSE /\ sup_pc' = "join_final"
            /\ iter' = InOrder(shard_set, 1)
    /\ UNCHANGED <<srcVars, sinkVars, cfgVars, apiVars, fan, lockVars, oplog_progress, file, tailVars,
                   mode, can_run, shard_set, join_pc, snap_rb, histVars>>

\* "repl_set, hosts = shard_doc['host'].split('/')" raises ValueError
SplitFails(host) == Len(host) # 2

\* a Supervisor that takes every catalogue entry for a new shard
KnownNever(shard_id) == FALSE
\* "if shard_id in self.shard_set"
Known(shard_id) == shard_id \in shard_set

\* run(), lines 266-314: one turn of the for loop over the catalogue.
ShardedFor ==
    /\ sup_pc = "for"
    /\ IF iter = <<>>
       THEN /\ sup_pc' = "while"
            /\ UNCHANGED <<iter, file, snap_rb, shard_set, state, running>>
       ELSE LET shard_id == Head(iter)
            IN IF Known(shard_id)
               THEN IF ~running[shard_id]
                    THEN /\ sup_pc' = "join_abort"
                         /\ iter' = InOrder(shard_set, 1)
                         /\ UNCHANGED <<file, snap_rb, shard_set, state, running>>
                    ELSE /\ file' = write_oplog_progress(oplog_progress)
                         /\ snap_rb' = rollbacks
                         /\ iter' = Tail(iter)
                         /\ UNCHANGED <<sup_pc, shard_set, state, running>>
               ELSE IF SplitFails(HostOf(shard_id))
                    THEN /\ sup_pc' = "join_abort"
                         /\ iter' = InOrder(shard_set, 1)
                         /\ UNCHANGED <<file, snap_rb, shard_set, state, running>>
                    ELSE /\ shard_set' = shard_set \cup {shard_id}
                         /\ state' = [state EXCEPT ![shard_id] = "init"]
                         /\ running' = [running EXCEPT ![shard_id] = TRUE]
                         /\ iter' = Tail(iter)
                         /\ UNCHANGED <<sup_pc, file, snap_rb>>
    /\ UNCHANGED <<srcVars, sinkVars, cfgVars, apiVars, fan, lockVars, oplog_progress,
                   checkpoint, cursor, last_ts, n, dump_start, dump_pos,
                   mode, can_run, join_pc, histVars>>

\* oplog_thread_join(), OplogThread.join(): the Tailer's flag is cleared ...
JoinAsk ==
    /\ sup_pc \in {"join_final", "join_abort"}
    /\ iter # <<>>
    /\ running[Head(iter)]
    /\ running' = [running EXCEPT ![Head(iter)] = FALSE]
    /\ UNCHANGED <<srcVars, sinkVars, cfgVars, apiVars, fan, lockVars, oplog_progress, file,
                   state, checkpoint, cursor, last_ts, n, dump_start, dump_pos,
                   supVars, histVars>>

\* ... and its thread is waited for.
JoinWait ==
    /\ sup_pc \in {"join_final", "join_abort"}
    /\ iter # <<>>
    /\ ~running[Head(iter)] /\ state[Head(iter)] = "stopped"
    /\ iter' = Tail(iter)
    /\ UNCHANGED <<srcVars, sinkVars, cfgVars, apiVars, fan, lockVars, oplog_progress, file, tailVars,
                   mode, can_run, sup_pc, shard_set, join_pc, snap_rb, histVars>>

\* run() returning once every Tailer is joined, without the last flush
RunReturnsUnflushed ==
    /\ sup_pc = "join_final" /\ iter = <<>>
    /\ sup_pc' = "done"
    /\ UNCHANGED <<srcVars, sinkVars, cfgVars, apiVars, fan, lockVars, oplog_progress, file, tailVars,
                   mode, can_run, shard_set, iter, join_pc, snap_rb, histVars>>

\* run(), line 317: the last flush, once every Tailer is joined.
RunFinalFlush ==
    /\ sup_pc = "join_final" /\ iter = <<>>
    /\ file' = write_oplog_progress(oplog_progress)
    /\ snap_rb' = rollbacks
    /\ sup_pc' = "done"
    /\ UNCHANGED <<srcVars, sinkVars, cfgVars, apiVars, fan, lockVars, oplog_progress, tailVars,
                   mode, can_run, shard_set, iter, join_pc, histVars>>

\* run() returning from an abort path without stopping the sinks
RunAbortReturns ==
    /\ sup_pc = "join_abort" /\ iter = <<>>
    /\ sup_pc' = "returned"
    /\ UNCHANGED <<srcVars, sinkVars, cfgVars, apiVars, fan, lockVars, oplog_progress, file,
                   tailVars, mode, can_run, shard_set, iter, join_pc, snap_rb,
                   histVars>>

\* run(), lines 256-258, 275-277, 288-290: a Tailer stopped unexpectedly (or a
\* catalogue entry names no replica set): the sinks are stopped and run returns.
RunAbortStop ==
    /\ sup_pc = "join_abort" /\ iter = <<>>
    /\ dm_stopped' = [k \in Sinks |-> TRUE]
    /\ sup_pc' = "returned"
    /\ UNCHANGED <<srcVars, dms, cfgVars, apiVars, fan, lockVars, oplog_progress, file, tailVars,
                   mode, can_run, shard_set, iter, join_pc, snap_rb, histVars>>

\* join(), lines 122-124: the flag is cleared and dm.stop() is called on every
\* sink, without waiting for anything.
JoinBegin ==
    /\ join_pc = "idle"
    /\ can_run' = FALSE
    /\ dm_stopped' = [k \in Sinks |-> TRUE]
    /\ join_pc' = "wait"
    /\ UNCHANGED <<srcVars, dms, cfgVars, apiVars, fan, lockVars, oplog_progress, file, tailVars,
                   mode, sup_pc, shard_set, iter, snap_rb, histVars>>

\* join(), line 125: threading.Thread.join(self) returns when run has returned
JoinThread ==
    /\ join_pc = "wait"
    /\ sup_pc \in {"done", "returned"}
    /\ join_pc' = "done"
    /\ UNCHANGED <<srcVars, sinkVars, cfgVars, apiVars, fan, lockVars, oplog_progress, file, tailVars,
                   mode, can_run, sup_pc, shard_set, iter, snap_rb, histVars>>

RunReplicaSet == RunLoad \/ RunNoReplSet \/ RunReplSet \/ ReplLoop
RunSharded == RunLoad \/ ShardedWhile \/ ShardedFor
\* the abort paths of run(): oplog_thread_join(), dm.stop(), return
RunAbort == JoinAsk \/ JoinWait \/ RunAbortStop
RunEnd == JoinAsk \/ JoinWait \/ RunFinalFlush \/ RunAbortStop

Join == JoinBegin \/ JoinThread

\* A Connector built on a cluster and started; join() may be called at any
\* time.  The checkpoint file is the one the previous run left.
Catalogues(m) ==
    IF m = "REPLSET" THEN {{"0"}}
    ELSE IF m = "SHARDED" THEN {{"s1", "s2"}, {"s3"}, {}}
    ELSE {{}}

InitSupervisor(modes) ==
    /\ \E m \in modes :
         \E cat \in Catalogues(m) :
           \E scen \in [Shards -> {"fresh", "marker", "resumeI"}],
              docs \in [Shards -> SUBSET Ids] :
               /\ mode = m
               /\ \A s \in Shards : s \notin (cat \ {"s3"}) => scen[s] = "fresh"
               /\ \A s \in Shards : docs[s] \subseteq IdsOf(s)
               /\ \A s \in Shards : scen[s] # "marker" => docs[s] = {}
               /\ InitShards(cat, scen, docs)
               /\ file = Chunks(PrevProgress(cat, scen), 1)
    /\ oplog_progress = [s \in Shards |-> None]
    /\ collection_dump \in BOOLEAN
    /\ batch_size \in BatchSizes
    /\ continue_on_error = FALSE
    /\ ns_set = <<NS>>
    /\ dest_ns_set = NoOption /\ fields = NoOption /\ NoBench
    /\ poison = {}
    /\ state = [s \in Shards |-> "none"]
    /\ running = [s \in Shards |-> FALSE]
    /\ can_run = TRUE
    /\ sup_pc = "start"
    /\ shard_set = {}
    /\ iter = <<>>
    /\ join_pc = "idle"
    /\ snap_rb = [s \in Shards |-> 0]

\* ------------------------------------- the Supervisor over a replica set
InitReplSet == InitSupervisor({"REPLSET", "STANDALONE"})

NextReplSet == RunReplicaSet \/ RunEnd \/ Join \/ Source \/ TailerRun \/ TailerStop

SpecReplSet == InitReplSet /\ [][NextReplSet]_vars

\* --------------------- the Supervisor over a replica set, through failover
NextCheckpoint == NextReplSet \/ FailoversReplSet \/ TailerRecover

SpecCheckpoint == InitReplSet /\ [][NextCheckpoint]_vars

\* ---------------------------------- the Supervisor over a sharded cluster
InitSharded == InitSupervisor({"SHARDED"})

NextSharded == RunSharded \/ RunEnd \/ Join \/ Source \/ TailerRun \/ TailerStop

SpecSharded == InitSharded /\ [][NextSharded]_vars

\* ------------------------------ the Supervisor that nobody cancels
\* run() on a replica set or on a sharded cluster; join() is never called.
\* The threads are scheduled fairly: run() goes on whenever it can, and a
\* Tailer whose flag was cleared gets to see it and to exit.
InitTeardown == InitSupervisor({"STANDALONE", "REPLSET", "SHARDED"})

RunStep == RunReplicaSet \/ RunSharded \/ RunAbort

\* the primaries go on logging their periodic markers; the documents are
\* those the collections hold at start
SourceMarkers == \E s \in Shards : SourceNoop(s)

NextTeardown == RunStep \/ SourceMarkers \/ TailerRun \/ TailerStop

SpecTeardown ==
    /\ InitTeardown /\ [][NextTeardown]_vars
    /\ WF_vars(RunStep)
    /\ \A s \in Shards : WF_vars(TailStopping(s) \/ TailStopped(s))

\* ------------------------------ the Supervisor from start to return
\* run() on a replica set or on a sharded cluster, and join() called at any
\* time or never.  run() goes on whenever it can, and a Tailer whose flag was
\* cleared gets to see it and to exit; nothing makes anybody call join().
RunThread == RunStep \/ RunFinalFlush

NextLifecycle == RunThread \/ Join \/ SourceMarkers \/ TailerRun \/ TailerStop

SpecLifecycle ==
    /\ InitTeardown /\ [][NextLifecycle]_vars
    /\ WF_vars(RunThread)
    /\ \A s \in Shards : WF_vars(TailStopping(s) \/ TailStopped(s))

\* ------------------------------ the checkpoint file written and read back
\* A Connector whose Progress Map holds any content calls
\* write_oplog_progress(); a new Connector on the same file, its Progress Map
\* empty, calls read_oplog_progress().
FlushCall ==
    /\ sup_pc = "unit"
    /\ file' = write_oplog_progress(oplog_progress)
    /\ sup_pc' = "written"
    /\ UNCHANGED <<srcVars, sinkVars, cfgVars, apiVars, fan, lockVars, oplog_progress, tailVars,
                   mode, can_run, shard_set, iter, join_pc, snap_rb, histVars>>

LoadCall ==
    /\ sup_pc = "written"
    /\ oplog_progress' = read_oplog_progress(file, EmptyProgress)
    /\ sup_pc' = "read"
    /\ UNCHANGED <<srcVars, sinkVars, cfgVars, apiVars, fan, lockVars, file, tailVars,
                   mode, can_run, shard_set, iter, join_pc, snap_rb, histVars>>

InitFile ==
    /\ InitShards({}, [s \in Shards |-> "fresh"], [s \in Shards |-> {}])
    /\ oplog_progress \in [Shards -> {None} \cup 1..MaxLog]
    /\ file = <<>>
    /\ collection_dump = TRUE
    /\ batch_size = 1
    /\ continue_on_error = FALSE
    /\ ns_set = <<NS>>
    /\ dest_ns_set = NoOption /\ fields = NoOption /\ NoBench
    /\ poison = {}
    /\ state = [s \in Shards |-> "none"]
    /\ running = [s \in Shards |-> FALSE]
    /\ mode = "SHARDED"
    /\ can_run = TRUE
    /\ sup_pc = "unit"
    /\ shard_set = {}
    /\ iter = <<>>
    /\ join_pc = "off"
    /\ snap_rb = [s \in Shards |-> 0]

NextFile == FlushCall \/ LoadCall

SpecFile == InitFile /\ [][NextFile]_vars

\* --------------------------------- the flush, one entry of the map at a time
\* write_oplog_progress() entry by entry, while the Tailers of two shards run.
\* "with self.oplog_progress as oplog_prog": the thread that enters holds the
\* map's exclusive section.
\* an exclusive section that excludes nobody
LockedByNobody(who) == "free"

LockedBy(who) == who

\* the part of the file written when the entries of the shards in left are
\* still to come
Written(prog, left) ==
    Chunks([s \in Shards |->
               IF \E i \in 1..Len(left) : left[i] = s THEN None ELSE prog[s]], 1)

\* lines 135-142: the old file becomes the backup, the file is opened for
\* writing, the exclusive section is entered and the dictionary is taken.
FlushEnter ==
    /\ sup_pc = "flush_idle"
    /\ lock = "free"
    /\ lock' = LockedBy("sup")
    /\ file' = <<>>
    /\ flush_iter' = ShardOrder
    /\ snap_map' = oplog_progress
    /\ snap_rb' = rollbacks
    /\ sup_pc' = "flush_write"
    /\ UNCHANGED <<srcVars, sinkVars, cfgVars, apiVars, fan, oplog_progress, tailVars,
                   mode, can_run, shard_set, iter, join_pc, histVars>>

\* lines 143-148: one turn of "for oplog, time_stamp in oplog_dict.items()".
FlushWrite ==
    /\ sup_pc = "flush_write"
    /\ flush_iter # <<>>
    /\ LET s == Head(flush_iter)
       IN file' = IF oplog_progress[s] # None
                  THEN Append(file, <<s, bson_ts_to_long(oplog_progress[s])>>)
                  ELSE file
    /\ flush_iter' = Tail(flush_iter)
    /\ UNCHANGED <<srcVars, sinkVars, cfgVars, apiVars, fan, lock, snap_map, oplog_progress,
                   tailVars, supVars, histVars>>

\* line 156: the exclusive section is left, the backup removed; the caller
\* sleeps and flushes again.
FlushLeave ==
    /\ sup_pc = "flush_write"
    /\ flush_iter = <<>>
    /\ lock' = "free"
    /\ sup_pc' = "flush_idle"
    /\ UNCHANGED <<srcVars, sinkVars, cfgVars, apiVars, fan, flush_iter, snap_map, oplog_progress,
                   file, tailVars, mode, can_run, shard_set, iter, join_pc,
                   snap_rb, histVars>>

Flush == FlushEnter \/ FlushWrite \/ FlushLeave

InitLock ==
    /\ \E scen \in [Shards -> {"fresh", "marker", "resumeI"}],
          docs \in [Shards -> SUBSET Ids] :
           /\ \A s \in Shards : scen[s] = "fresh" <=> s \notin {"s1", "s2"}
           /\ \A s \in Shards : docs[s] \subseteq IdsOf(s)
           /\ \A s \in Shards : scen[s] # "marker" => docs[s] = {}
           /\ InitShards({"s1", "s2"}, scen, docs)
           /\ oplog_progress = PrevProgress({"s1", "s2"}, scen)
    /\ collection_dump \in BOOLEAN
    /\ batch_size \in BatchSizes
    /\ continue_on_error = FALSE
    /\ ns_set = <<NS>>
    /\ dest_ns_set = NoOption /\ fields = NoOption /\ NoBench
    /\ poison = {}
    /\ file = <<>>
    /\ state = [s \in Shards |-> IF s \in catalogue THEN "init" ELSE "none"]
    /\ running = [s \in Shards |-> s \in catalogue]
    /\ mode = "SHARDED"
    /\ can_run = TRUE
    /\ sup_pc = "flush_idle"
    /\ shard_set = catalogue
    /\ iter = <<>>
    /\ join_pc = "off"
    /\ snap_rb = [s \in Shards |-> 0]

NextLock == Flush \/ Source \/ TailerRunLogged

SpecLock == InitLock /\ [][NextLock]_vars

\* ----------------------------------------------------------------- claims
CaughtUp(s) == state[s] = "tailing" /\ cursor[s] > 0 /\ cursor[s] = Len(log[s])
Started(s) == how[s] # ""

\* C1, as stated: in every reachable state the position stored for a shard in
\* the Progress Map is at most the position of the last log entry whose sink
\* operation completed on every configured sink.  (A checkpoint loaded at
\* start and a finished dump count as acknowledged.)
C1_PublishedIsAcked_Original ==
    \A s \in Shards : oplog_progress[s] # None => oplog_progress[s] <= acked[s]

\* C1, amended: the position stored for a shard is at most the last position
\* every sink acknowledged, or the last log position the Tailer adopted without
\* applying anything: at a start without checkpoint and with collection-dump
\* false, and after a rollback that found nothing in the sinks.
C1_PublishedIsAcked ==
    \A s \in Shards :
        oplog_progress[s] # None =>
            oplog_progress[s] <= Max({acked[s], skipped[s]})

C1_Witness ==
    \E s \in Shards :
        /\ dispN[s] > 0
        /\ oplog_progress[s] = lastDisp[s][1]
        /\ acked[s] = lastDisp[s][1]

\* C2, as stated: for each shard and each sink, the positions of the
\* successive writes the shard's Tailer dispatches while tailing are strictly
\* increasing, whatever the Tailers of the other shards do in between.
C2_PerShardOrder_Original ==
    [][\A s \in Shards, k \in Sinks :
           (dispN'[s] # dispN[s] /\ lastDisp[s][k] # None)
               => lastDisp'[s][k] > lastDisp[s][k]]_vars

\* C2, amended: the positions of the successive writes a Tailer dispatches to a
\* sink through one cursor are strictly increasing and above the checkpoint the
\* cursor was opened at, whatever the other Tailers do in between; a cursor
\* reopened after a cursor loss or a rollback starts again strictly after the
\* checkpoint, so positions dispatched before may be dispatched again.
C2_PerShardOrder ==
    [][\A s \in Shards, k \in Sinks :
           dispN'[s] # dispN[s] =>
               /\ sinceCursor[s] > 0 => lastDisp'[s][k] > lastDisp[s][k]
               /\ sinceCursor[s] = 0 => lastDisp'[s][k] > checkpoint[s]]_vars

C2_Witness ==
    \E s \in Shards, t \in Shards :
        /\ s # t
        /\ sinceCursor[s] >= 2
        /\ state[t] = "tailing"

\* C3: the position the checkpoint file holds for a shard after a flush is not
\* lower than the position it held before the flush, unless the shard's Tailer
\* completed a rollback reconciliation since the file was last written.
C3_MonotonicCheckpoint ==
    [][\A s \in Shards :
           (FilePos(file, s) # None /\ snap_rb[s] = rollbacks[s]) =>
               /\ FilePos(file', s) # None
               /\ FilePos(file', s) >= FilePos(file, s)]_vars

\* the file the previous run left held the checkpoint the Tailer resumed from;
\* a later flush wrote the position of an entry applied since
C3_Witness ==
    \E s \in Shards :
        /\ how[s] = "resume" /\ rollbacks[s] = 0
        /\ dispN[s] > 0
        /\ FilePos(file, s) = lastDisp[s][1]
        /\ FilePos(file, s) > initpos[s]

\* C4: a Tailer that starts with a checkpoint c never applies the entry at c
\* nor an older one: every entry it applies has a position > c, and until it
\* applies one its checkpoint and its Progress Map entry stay c.
C4_ResumeAfterCheckpoint ==
    \A s \in Shards :
        how[s] = "resume" =>
            /\ \A k \in Sinks : lastDisp[s][k] # None => lastDisp[s][k] > initpos[s]
            /\ dispN[s] = 0 =>
                   /\ checkpoint[s] = initpos[s]
                   /\ oplog_progress[s] = initpos[s]

C4_Witness ==
    \E s \in Shards :
        /\ how[s] = "resume"
        /\ log[s][IndexOf(log[s], initpos[s])].op = "i"
        /\ dispN[s] >= 1
        /\ oplog_progress[s] > initpos[s]

C6_NoWriteMissed ==
    \A s \in Shards :
        (how[s] = "dump" /\ CaughtUp(s)) =>
            \A k \in Sinks : SearchAll(dms[k]) \cap IdsOf(s) = coll[s]

C6_Witness ==
    \E s \in Shards :
        /\ how[s] = "dump" /\ CaughtUp(s)
        /\ dump_end[s] > dump_start[s]
        /\ dispN[s] >= 1
        /\ coll[s] # {}

\* C7: the dump reads dump_start first (None on an empty log), stamps every
\* dumped document with its namespace and _ts = dump_start, and when it is done
\* the checkpoint is dump_start, not the log position reached meanwhile.
C7_DumpStart ==
    \A s \in Shards :
        how[s] = "dump" =>
            /\ dispN[s] = 0 =>
                   \A k \in Sinks, i \in dumped[s] :
                       /\ i \in DOMAIN dms[k].doc_dict
                       /\ dms[k].doc_dict[i].ts = dump_start[s]
                       /\ dms[k].doc_dict[i].ns = NS
            /\ (state[s] = "tailing" /\ dispN[s] = 0) =>
                   /\ checkpoint[s] = dump_start[s]
                   /\ oplog_progress[s] = dump_start[s]
            /\ dump_start[s] = None =>
                   /\ state[s] \in {"dumping", "stopped"}
                   /\ checkpoint[s] = None
                   /\ dumped[s] = {}

C7_Witness ==
    \E s \in Shards :
        /\ how[s] = "dump" /\ state[s] = "tailing"
        /\ dumped[s] # {}
        /\ dump_end[s] > dump_start[s]
        /\ checkpoint[s] = dump_start[s]

\* C8: the Tailer dumps if and only if it finds no checkpoint and
\* collection-dump is true; otherwise no sink receives a dumped document and
\* the Tailer goes straight to tailing.  Started without a checkpoint on a
\* non-empty log, its checkpoint and Progress Map entry are the last log
\* position it read at start.
C8_DumpIff ==
    \A s \in Shards :
        Started(s) =>
            /\ how[s] = "dump" <=> (collection_dump /\ found[s] = None)
            /\ how[s] = "resume" <=> found[s] # None
            /\ how[s] # "dump" =>
                   /\ dumped[s] = {} /\ dump_start[s] = None
                   /\ state[s] \in {"tailing", "stopped"}
            /\ (how[s] = "nodump" /\ state[s] = "tailing" /\ dispN[s] = 0) =>
                   /\ checkpoint[s] = initpos[s]
                   /\ oplog_progress[s] = initpos[s]
                   /\ initpos[s] \in Positions(log[s])

C8_Witness ==
    \E s \in Shards, t \in Shards :
        /\ how[s] = "nodump" /\ state[s] = "tailing" /\ coll[s] # {}
        /\ \A k \in Sinks : SearchAll(dms[k]) \cap IdsOf(s) = {}
        /\ how[t] = "resume" /\ state[t] = "tailing"

\* C9: on graceful stop no sink is stopped before every Tailer has exited and
\* run() has made its last flush: once join() has been called, a stopped sink
\* means that no Tailer is left at work and that run() has returned.
C9_SinksStoppedLast ==
    \A k \in Sinks :
        (join_pc # "idle" /\ dm_stopped[k] /\ shard_set # {}) =>
            /\ \A s \in shard_set : state[s] = "stopped"
            /\ sup_pc \in {"done", "returned"}

C11_FlushLoadRoundTrip ==
    [][(sup_pc = "written" /\ sup_pc' = "read") =>
           /\ Len(file) = (IF oplog_progress = EmptyProgress THEN 0 ELSE 1)
           /\ oplog_progress' = oplog_progress]_vars

\* C12: while write_oplog_progress serializes the Progress Map it holds the
\* map's exclusive section and no Tailer writes the map: between entering and
\* leaving the section the map stays what it was on entry, what is written so
\* far are entries of that one map, and the file a flush leaves is that map.
C12_FlushIsSnapshot ==
    /\ sup_pc = "flush_write" =>
           /\ lock = "sup"
           /\ oplog_progress = snap_map
           /\ file = Written(snap_map, flush_iter)
    /\ sup_pc = "flush_idle" => file = Written(snap_map, <<>>)

\* a flush has written the entry of one shard and not yet that of the other,
\* while the other shard's Tailer has applied an entry and waits to publish it
C12_Witness ==
    \E s \in Shards :
        /\ sup_pc = "flush_write" /\ lock = "sup"
        /\ Len(file) = 1
        /\ \E i \in 1..Len(flush_iter) : flush_iter[i] = s
        /\ state[s] = "tailing" /\ cursor[s] = Len(log[s])
        /\ n[s] > 0 /\ last_ts[s] # None
        /\ last_ts[s] # oplog_progress[s]

\* C13: if the Tailer of a shard is no longer running while the Supervisor has
\* not been cancelled, then eventually run() has returned with every Tailer
\* joined and every sink stopped, on a replica set and on a sharded cluster.
C13_TeardownOnTailerExit ==
    (can_run /\ \E s \in shard_set : ~running[s])
        ~> (/\ sup_pc = "returned"
            /\ \A t \in shard_set : state[t] = "stopped"
            /\ \A k \in Sinks : dm_stopped[k])

\* on a sharded cluster one Tailer stopped by itself on an empty log, the other
\* was tailing and got joined; the sinks are stopped and run() has returned
C13_Witness ==
    \E s \in Shards, t \in Shards :
        /\ mode = "SHARDED" /\ sup_pc = "returned" /\ can_run
        /\ {s, t} \subseteq shard_set
        /\ how[s] = "nodump" /\ initpos[s] = None
        /\ cursor[t] > 0 /\ state[t] = "stopped"
        /\ \A k \in Sinks : dm_stopped[k]

\* C14: run() loads the checkpoint file into the Progress Map once, as its
\* first step and before any Tailer exists: run() leaves its start only by the
\* load, never comes back to it, and a Tailer is constructed only after it, so
\* that no Tailer reads the Progress Map before the load has finished.
C14_LoadOnceBeforeTailers ==
    [][/\ sup_pc # "start" => sup_pc' # "start"
       /\ (sup_pc = "start" /\ sup_pc' # "start") =>
              /\ oplog_progress' = read_oplog_progress(file, oplog_progress)
              /\ shard_set = {} /\ \A s \in Shards : state[s] = "none"
       /\ \A s \in Shards :
              (state[s] = "none" /\ state'[s] # "none") => sup_pc # "start"]_vars

\* a Tailer found in the Progress Map the checkpoint the file held
C14_Witness ==
    \E s \in shard_set :
        /\ how[s] = "resume" /\ found[s] # None
        /\ found[s] = ScenProgress("resumeI")
        /\ state[s] = "tailing"

\* ------------------------------ the Tailers through failover or truncation
TruncationsSharded == \E i \in 2..MaxLog : Truncation("s1", i)

NextRollback ==
    Source \/ TailerRunLogged \/ FailoversSharded \/ TruncationsSharded \/ TailerRecover

\* as InitFailover, and the previous run may have crashed in mid-dispatch
InitRollback ==
    InitDirect({"marker", "resumeI", "resumeP"}) /\ \A s \in catalogue : log[s] # <<>>

SpecRollback == InitRollback /\ [][NextRollback]_vars

\* C15: a Tailer enters rollback reconciliation only from tailing, with its
\* cursor lost and no cursor to be had at its checkpoint; no cursor is to be
\* had for None or for a position the log does not hold (absent, or older than
\* the earliest entry); a Tailer whose checkpoint is still in the log gets its
\* cursor back, keeps tailing from the same checkpoint and leaves every sink
\* as it was.
C15_RollbackOnlyWhenDiverged ==
    [][\A s \in Shards :
           /\ ResumeIndex(log[s], None) = 0
           /\ \A ts \in 1..(MaxLog + 1) :
                  ts \notin Positions(log[s]) => ResumeIndex(log[s], ts) = 0
           /\ (state[s] # "rolling_back" /\ state'[s] = "rolling_back") =>
                  /\ state[s] = "tailing" /\ cursor[s] = 0
                  /\ ResumeIndex(log[s], checkpoint[s]) = 0
           /\ (state[s] = "tailing" /\ cursor[s] = 0 /\ log' = log
                 /\ checkpoint[s] \in Positions(log[s])
                 /\ <<state[s], cursor[s]>> # <<state'[s], cursor'[s]>>) =>
                  /\ state'[s] = "tailing"
                  /\ log[s][cursor'[s]].ts = checkpoint[s]
                  /\ checkpoint'[s] = checkpoint[s]
                  /\ dms' = dms]_vars

\* after a failover that kept the entry at its checkpoint, a resumed Tailer has
\* its cursor back without a rollback, and the sinks still hold its documents
C15_Witness ==
    /\ failovers > 0 /\ how["s1"] = "resume" /\ rollbacks["s1"] = 0
    /\ state["s1"] = "tailing" /\ cursor["s1"] > 0
    /\ log["s1"][cursor["s1"]].ts = checkpoint["s1"]
    /\ \A k \in Sinks : FirstId("s1") \in DOMAIN dms[k].doc_dict

\* C16: when a rollback reconciliation of a shard completes and every sink
\* had a last document, the shard's checkpoint, and its entry of the Progress
\* Map, is min(T_sink, first log position of the new primary), T_sink being the
\* smallest, over the sinks, of the greatest _ts the sink holds.
C16_CheckpointIsSafe ==
    [][\A s \in Shards :
           (rollbacks'[s] # rollbacks[s] /\ \A k \in Sinks : AllRecords(dms[k]) # {}) =>
               LET last(k) == Max({r.ts : r \in AllRecords(dms[k])})
                   tsink == Min({last(k) : k \in Sinks})
               IN /\ checkpoint'[s] = Min({tsink, log[s][1].ts})
                  /\ oplog_progress'[s] = checkpoint'[s]]_vars

\* a reconciliation on a log that lost its oldest entries: the sinks' last
\* document was not older than the first entry left, and the Tailer went back
\* to that entry
C16_Witness ==
    /\ rollbacks["s1"] > 0 /\ skipped["s1"] = None
    /\ log["s1"][1].ts > 1
    /\ checkpoint["s1"] = log["s1"][1].ts
    /\ state["s1"] = "tailing"

\* ------------------------------------------- the Tailers, sink by sink
\* one step of the Tailer of shard s, its write events reaching one sink at
\* a time
TailerStepFan(s) ==
    \/ InitResume(s) \/ InitDump(s) \/ InitNoDump(s)
    \/ DumpDispatch(s) \/ DumpDone(s)
    \/ TailDispatch(s) \/ TailBlock(s)

NextFanout == Source \/ \E s \in Shards : TailerStepFan(s)

InitFanout ==
    InitDirect({"marker", "resumeM", "resumeI"}) /\ \A s \in catalogue : log[s] # <<>>

\* the Tailers are threads that run until they stop
SpecFanout ==
    InitFanout /\ [][NextFanout]_vars /\ \A s \in Shards : WF_vars(TailerStepFan(s))

\* ---------------------------------- the initial dump with failing upserts
\* a document of s1 that no client writes to during the run
OldIds == {3}

\* continue-on-error on or off; some of the documents of s1 carry
\* '_upsert_exception' (DocManager.upsert raises for them); s1 starts without
\* a checkpoint, s2 resumes from one
InitDumpErrors ==
    /\ InitDirectWith({"marker", "resumeI"}, BOOLEAN,
                      SUBSET (IdsOf("s1") \cup OldIds) \ {{}}, OldIds)
    /\ ns_set = <<NS>>
    /\ dest_ns_set = NoOption /\ fields = NoOption /\ NoBench
    /\ log["s1"] # <<>> /\ oplog_progress["s1"] = None
    /\ oplog_progress["s2"] # None

SpecDumpErrors ==
    InitDumpErrors /\ [][NextFanout]_vars /\ \A s \in Shards : WF_vars(TailerStepFan(s))

\* ----------------------------------------------- several namespaces
\* the other collections live on s1
NextNamespaces ==
    \/ Source
    \/ \E i \in ForeignIds : SourceForeign("s1", i)
    \/ \E s \in Shards : TailerStepFan(s)

\* the included set is {NS} or empty; s1 starts without a checkpoint and may
\* hold documents of the other collections, s2 resumes from a checkpoint
InitNamespaces ==
    /\ InitDirectWith({"marker", "resumeI"}, {FALSE}, {{}}, ForeignIds)
    /\ ns_set \in {<<NS>>, <<>>}
    /\ dest_ns_set = NoOption /\ fields = NoOption /\ NoBench
    /\ log["s1"] # <<>> /\ oplog_progress["s1"] = None
    /\ oplog_progress["s2"] # None

SpecNamespaces == InitNamespaces /\ [][NextNamespaces]_vars

\* ------------------------------- renamed namespaces, projected fields
\* the command lines the model draws from: --namespace-set,
\* --dest-namespace-set, --fields
CommandLines ==
    {<<<<>>, NoOption, Option(<<"a">>)>>,
     <<<<NS>>, NoOption, NoOption>>,
     <<<<NS>>, Option(<<DestNS>>), Option(<<"a">>)>>,
     <<<<NS, OtherNS>>, NoOption, Option(<<"a">>)>>,
     <<<<NS, OtherNS>>, Option(<<OtherNS, NS>>), NoOption>>,
     <<<<NS, OtherNS>>, Option(<<DestNS>>), NoOption>>,
     <<<<NS, NS>>, NoOption, NoOption>>}

\* a command line main() accepts; s1 starts without a checkpoint and may hold
\* a document of the other collection, s2 starts from the marker's
\* checkpoint; the sinks are empty
InitRewrite ==
    /\ InitDirectWith({"marker", "resumeM"}, {FALSE}, {{}}, {4})
    /\ \E c \in CommandLines :
          /\ NamespacesAccepted(c[1], c[2])
          /\ ns_set = c[1] /\ dest_ns_set = c[2] /\ fields = c[3]
    /\ NoBench
    /\ log["s1"] # <<>> /\ oplog_progress["s1"] = None
    /\ oplog_progress["s2"] # None

SpecRewrite == InitRewrite /\ [][NextNamespaces]_vars

\* C22: the rename map pairs the i-th included namespace with the i-th
\* destination namespace, or with itself when no destination set is given,
\* and has no other entry; every record of every sink carries the namespace
\* the map gives for the namespace of its source document, or that namespace
\* itself when the map has no entry for it.
C22_RenamedNamespace ==
    LET dest(i) == IF dest_ns_set.none THEN ns_set[i] ELSE dest_ns_set.list[i]
    IN /\ DOMAIN dest_mapping = {ns_set[i] : i \in 1..Len(ns_set)}
       /\ \A i \in 1..Len(ns_set) : dest_mapping[ns_set[i]] = dest(i)
       /\ \A k \in Sinks : \A r \in AllRecords(dms[k]) :
              IF \E i \in 1..Len(ns_set) : ns_set[i] = NsOf(r.id)
              THEN \A i \in 1..Len(ns_set) : ns_set[i] = NsOf(r.id) => r.ns = dest(i)
              ELSE r.ns = NsOf(r.id)

\* two namespaces that swap: both sinks hold a document of each, and the
\* removal record of a deleted one, under the other's name
C22_Witness ==
    /\ ns_set = <<NS, OtherNS>> /\ dest_ns_set = Option(<<OtherNS, NS>>)
    /\ \A k \in Sinks :
          /\ 4 \in DOMAIN dms[k].doc_dict /\ dms[k].doc_dict[4].ns = NS
          /\ 1 \in DOMAIN dms[k].removed_dict /\ dms[k].removed_dict[1].ns = OtherNS

Migrations ==
    \E i \in Ids : \E s, t \in {"s1", "s2"} :
        \/ MigrateCopy(s, t, i) \/ MigrateCommit(s, t, i) \/ MigrateAbort(t, i)

NextPipeline ==
    \/ Source
    \/ Migrations
    \/ \E s \in Shards : TailerStepFan(s)

\* both shards hold the startup marker and may hold documents; either Tailer
\* starts without a checkpoint or from the marker's
InitPipeline ==
    /\ InitDirectWith({"marker", "resumeM"}, {FALSE}, {{}}, {})
    /\ ns_set = <<NS>>
    /\ dest_ns_set = NoOption /\ fields = NoOption /\ NoBench
    /\ \A s \in catalogue : log[s] # <<>>

SpecPipeline == InitPipeline /\ [][NextPipeline]_vars

\* the documents of the included namespaces the cluster holds
SourceDocs == {i \in UNION {coll[s] : s \in Shards} : i > 0 /\ Included(NsOf(i))}

\* the position the Tailer of shard s began to tail from
TailStart(s) == IF how[s] = "dump" THEN dump_end[s] ELSE found[s]

\* since the Tailer of shard s began to tail, only the balancer wrote to s
OnlyBalancer(s) ==
    \A i \in 1..Len(log[s]) :
        IF log[s][i].ts > TailStart(s)
        THEN log[s][i].fromMigrate \/ log[s][i].op = "n"
        ELSE ~log[s][i].fromMigrate

\* C21: a Tailer that reads a log entry with fromMigrate set moves past it
\* and leaves every sink as it was; and when, since the Tailers began to tail,
\* only the balancer wrote to the shards, the Tailers that have caught up
\* with their logs leave in every sink exactly the documents of the source,
\* whether the migrations succeeded or failed.
C21_MigrationLeavesSinksAlone ==
    /\ [][\A s \in Shards :
            (cursor'[s] = cursor[s] + 1 /\ log[s][cursor'[s]].fromMigrate) => dms' = dms]_vars
    /\ []((\A s \in catalogue : /\ how[s] \in {"dump", "resume"}
                                  /\ CaughtUp(s) /\ fan[s].k = 0
                                  /\ OnlyBalancer(s))
           => \A k \in Sinks : SearchAll(dms[k]) = SourceDocs)

\* both Tailers have read their half of a successful migration of document 1
C21_Witness ==
    /\ \A s \in catalogue : how[s] \in {"dump", "resume"} /\ CaughtUp(s) /\ OnlyBalancer(s)
    /\ \E i \in 1..Len(log["s1"]) : log["s1"][i].fromMigrate /\ log["s1"][i].op = "d"
    /\ \E i \in 1..Len(log["s2"]) : log["s2"][i].fromMigrate /\ log["s2"][i].op = "i"
    /\ \A k \in Sinks : SearchAll(dms[k]) = {1}
    /\ coll["s2"] = {1}

\* C17: once a rollback on shard s1 has been reconciled and the Tailers, which
\* all started from a dump or a checkpoint, have caught up with their logs,
\* every sink holds exactly the documents the source holds: what only the
\* failed primary had is gone, what the source still has, on s1 or on another
\* shard, is there.
C17_SinksMatchSourceAfterRollback ==
    (/\ rollbacks["s1"] > 0
     /\ \A s \in catalogue : how[s] \in {"dump", "resume"} /\ CaughtUp(s)) =>
        \A k \in Sinks : SearchAll(dms[k]) = UNION {coll[s] : s \in catalogue}

\* C18: a write event of a Tailer reaches the sinks in declaration order (in
\* mid-event the first fan[s].k sinks have it, the others not yet; between
\* events every sink has received the same last write), and a Tailer that
\* tails after a dump or from a checkpoint leads to every sink holding exactly
\* the documents of its shard: what was inserted is in every sink, what was
\* removed from the source is in none.
C18_FanOutToEverySink ==
    /\ [](\A s \in Shards :
            /\ fan[s].k = 0 => \A j \in Sinks : lastDisp[s][j] = lastDisp[s][1]
            /\ (fan[s].k > 0 /\ state[s] = "tailing") =>
                   LET e == log[s][cursor[s] + 1]
                   IN \A j \in Sinks :
                          /\ j <= fan[s].k =>
                                 /\ lastDisp[s][j] = e.ts
                                 /\ IF e.op = "d" THEN e.id \notin SearchAll(dms[j])
                                    ELSE Shows(dms[j], e)
                          /\ j > fan[s].k => lastDisp[s][j] < e.ts /\ ~Shows(dms[j], e)
            /\ (fan[s].k > 0 /\ state[s] = "dumping") =>
                   LET chunk == fan[s].chunk
                   IN \A j \in Sinks :
                          /\ j <= fan[s].k => chunk \subseteq SearchAll(dms[j])
                          /\ j > fan[s].k => chunk \cap SearchAll(dms[j]) = {})
    /\ (\E s \in Shards : state[s] = "tailing" /\ how[s] \in {"dump", "resume"})
           ~> (\A s \in Shards :
                   (state[s] = "tailing" /\ how[s] \in {"dump", "resume"}) =>
                       \A k \in Sinks : SearchAll(dms[k]) \cap IdsOf(s) = coll[s])

\* both Tailers have caught up; one dispatched an insert and then the delete
\* of the same document, which no sink holds any more, while every sink holds
\* the document of the other shard
C18_Witness ==
    \E s, t \in Shards :
        /\ s # t /\ CaughtUp(s) /\ CaughtUp(t) /\ fan[s].k = 0 /\ fan[t].k = 0
        /\ dispN[s] >= 2 /\ log[s][Len(log[s])].op = "d" /\ coll[s] = {}
        /\ coll[t] # {}
        /\ \A k \in Sinks : SearchAll(dms[k]) = coll[t]

\* C19: in a step of a dumping Tailer whose chunk holds a document the sink
\* fails on, with continue-on-error false the Tailer stops, its checkpoint and
\* its entry of the Progress Map stay None and the later sinks do not get the
\* chunk; with continue-on-error true the Tailer keeps dumping and that sink
\* gets the documents of the batch before the failing one and none after it.
\* A Tailer leaves dumping for stopped only that way, and for tailing with its
\* checkpoint at dump_start.  With continue-on-error true every dump that
\* started ends in tailing.
C19_DumpSinkFailure ==
    /\ [][\A s \in Shards :
            LET cur == IF fan[s].k = 0
                       THEN DumpChunk(coll[s], dump_pos[s], batch_size)
                       ELSE fan[s].chunk
                k == fan[s].k + 1
                fails == cur \cap poison # {}
                mine == \/ fan'[s] # fan[s] \/ dump_pos'[s] # dump_pos[s]
                        \/ state'[s] # state[s]
            IN /\ (state[s] = "dumping" /\ mine /\ fails /\ ~continue_on_error) =>
                      /\ state'[s] = "stopped" /\ ~running'[s]
                      /\ checkpoint'[s] = None /\ oplog_progress'[s] = None
                      /\ \A j \in Sinks : j > k => dms'[j] = dms[j]
               /\ (state[s] = "dumping" /\ mine /\ fails /\ continue_on_error) =>
                      /\ state'[s] = "dumping"
                      /\ SearchAll(dms'[k]) =
                             SearchAll(dms[k]) \cup
                                 {i \in cur : \A b \in cur \cap poison : i < b}
               /\ (state[s] = "dumping" /\ state'[s] = "stopped") =>
                      fails /\ ~continue_on_error
               /\ (state[s] = "dumping" /\ state'[s] = "tailing") =>
                      /\ checkpoint'[s] = dump_start[s]
                      /\ oplog_progress'[s] = dump_start[s]]_vars
    /\ (\E s \in Shards : state[s] = "dumping" /\ continue_on_error)
           ~> (\A s \in Shards : how[s] = "dump" => state[s] = "tailing")

\* continue-on-error: the dump of s1 met a failing document, went on to the
\* next batch and finished; the sinks hold the sound document only, and the
\* checkpoint is dump_start
C19_Witness ==
    /\ continue_on_error /\ batch_size = 1
    /\ poison \cap coll["s1"] # {} /\ coll["s1"] \ poison # {}
    /\ \E i \in poison \cap coll["s1"] : \E j \in coll["s1"] \ poison : i < j
    /\ how["s1"] = "dump" /\ state["s1"] = "tailing"
    /\ checkpoint["s1"] = dump_start["s1"]
    /\ \A k \in Sinks : SearchAll(dms[k]) \cap coll["s1"] = coll["s1"] \ poison

\* C20: whatever a Tailer step changes in a sink, the record it leaves (a
\* document or a removal) bears a namespace of the included set or, the set
\* being empty, a namespace that is neither system nor config; the log entry
\* a Tailer last dispatched to a sink, whether or not the sink call raised, is
\* of such a namespace; and so is every record a sink holds.
C20_NamespaceFilter ==
    [][LET allowed(ns) == IF ns_set = <<>> THEN ns \notin {SystemNS, ConfigNS}
                          ELSE ns \in Range(ns_set)
       IN /\ \A k \in Sinks : \A r \in AllRecords(dms'[k]) : allowed(r.ns)
          /\ \A k \in Sinks : \A r \in AllRecords(dms'[k]) \ AllRecords(dms[k]) :
                 allowed(NsOf(r.id))
          /\ \A s \in Shards : \A k \in Sinks :
                 lastDisp'[s][k] # lastDisp[s][k] =>
                     allowed(log[s][IndexOf(log[s], lastDisp'[s][k])].ns)]_vars

\* with the included set {NS}: s1 held documents of the other collections when
\* its dump ran, their inserts and deletes were logged and read past, and the
\* sinks hold documents of NS only
C20_Witness ==
    /\ ns_set = <<NS>>
    /\ how["s1"] = "dump" /\ CaughtUp("s1") /\ fan["s1"].k = 0
    /\ dumped["s1"] # {} /\ coll["s1"] \cap ForeignIds # {}
    /\ \E i \in 1..Len(log["s1"]) : log["s1"][i].ns # NS /\ i <= cursor["s1"]
    /\ \A k \in Sinks : SearchAll(dms[k]) # {} /\ SearchAll(dms[k]) \cap ForeignIds = {}

\* ------------------------------------------- the DocManagers on the bench
\* a stored document with fields, indexed before this run
EsHolding(body) ==
    [EsOff EXCEPT !.source = Put(EmptyDict, <<NS, 1>>, body),
                  !.meta = Put(EmptyDict, 1, upsert_metadata(NS, 1))]

\* One DocManager per run: a new simulator; an Elastic DocManager without a
\* committer over an index that is empty or holds document 1; or an Elastic
\* DocManager built with auto_commit_interval None, 0 or 1, whose __init__
\* calls run_auto_commit for an interval other than None and 0.
InitBench ==
    /\ InitDirectWith({"fresh"}, {FALSE}, {{}}, {})
    /\ collection_dump = TRUE /\ batch_size = 1
    /\ ns_set = <<NS>> /\ dest_ns_set = NoOption /\ fields = NoOption
    /\ disk = PlainDisk /\ boot = NoBoot /\ pure = NoPure
    /\ \/ /\ call = [NoCall EXCEPT !.dm = "simulator"]
          /\ es = EsOff
       \/ /\ call = [NoCall EXCEPT !.dm = "elastic"]
          /\ es \in {EsOff} \cup {EsHolding(body) : body \in EsBodies}
       \/ /\ call = [NoCall EXCEPT !.dm = "committer"]
          /\ \E k \in {NoInterval, 0, 1} :
                es = [EsOff EXCEPT !.interval = k,
                                   !.pc = IF k \notin {NoInterval, 0}
                                          THEN "refresh" ELSE "done"]

NextBench ==
    \/ \E i \in Ids, namespace \in BenchNamespaces, ts \in Stamps :
          \/ \E exc \in BOOLEAN : SimUpsert(i, namespace, ts, exc)
          \/ SimRemove(i, namespace, ts)
    \/ \E a, b \in Stamps : SimSearch(a, b)
    \/ SimGetLastDoc
    \/ \E i \in Ids, ts \in Stamps :
          \/ \E body \in EsBodies, namespace \in BenchNamespaces :
                EsUpsert(i, namespace, ts, body)
          \/ \E namespace \in BenchNamespaces : EsRemove(i, namespace, ts)
          \/ \E u \in UpdateSpecs : EsUpdate(i, ts, u)
    \/ \E docs \in {<<>>, <<WithMetadata(EmptyDoc, 2, NS, 2)>>,
                    <<WithMetadata(EmptyDoc, 1, NS, 3),
                      WithMetadata(Doc1(PathA, 1), 2, NS, 3)>>} : EsBulkUpsert(docs)
    \/ Committer
    \/ EsStop

\* the threads of the committer run until they end
SpecBench == InitBench /\ [][NextBench]_vars /\ WF_vars(Committer)

\* a call made on the simulator in this step
SimCall(op) == call'.dm = "simulator" /\ call'.n = call.n + 1 /\ call'.op = op
\* a call made on the Elastic DocManager in this step
EsCall(op) == call'.dm = "elastic" /\ call'.n = call.n + 1 /\ call'.op = op

C25_UpsertIdempotent ==
    [][(SimCall("upsert") /\ ~call'.raised) =>
          LET i == call'.id
              ts == call'.ts
              d == dms'[1]
              doc == [id |-> i, keys |-> KeysOf(i), upsert_exception |-> FALSE]
          IN /\ Cardinality({r \in AllRecords(d) : r.id = i}) = 1
             /\ i \in DOMAIN d.doc_dict /\ d.doc_dict[i].ts = ts
             /\ \A r \in AllRecords(dms[1]) : r.id # i => r \in AllRecords(d)
             /\ \A r \in AllRecords(d) : r.id # i => r \in AllRecords(dms[1])
             /\ upsert(d, doc, call'.ns, ts).dm = d]_vars

\* an upsert of a document the sink held with another position, after an
\* upsert of a document it had removed
C25_Witness ==
    /\ call.dm = "simulator" /\ call.op = "upsert" /\ call.hit /\ ~call.raised
    /\ call.n = MaxCalls
    /\ dms[1].doc_dict[call.id].ts = call.ts
    /\ DOMAIN dms[1].removed_dict = {}

\* C26: search(start_ts, end_ts) yields the records of the sink whose _ts is
\* in [start_ts, end_ts], and no other.
C26_SearchInclusiveRange ==
    (call.dm = "simulator" /\ call.op = "search") =>
        call.found = {r \in AllRecords(dms[1]) :
                         call.ts <= r.ts /\ r.ts <= call.end_ts}

\* C27: get_last_doc() does not fail: it returns a record with the greatest
\* _ts of the sink, and none when the sink holds no record.
C27_LastDocOrNone ==
    (call.dm = "simulator" /\ call.op = "get_last_doc") =>
        /\ ~call.raised
        /\ call.last = IF AllRecords(dms[1]) = {} THEN None
                      ELSE Max({r.ts : r \in AllRecords(dms[1])})

\* C28: update of a stored document stores and returns the post-image: with
\* $set or $unset every $set path holds its new value, every $unset path is
\* absent and every other path keeps its value; without them the
\* specification is the new document; the _id is the stored document's.
C28_UpdatePostImage ==
    [][(EsCall("update") /\ call'.hit) =>
          LET i == call'.id
              u == call'.update_spec
              old == es.source[<<NS, i>>]
              new == es'.source[<<NS, i>>]
              touched(q) == \/ \E p \in DOMAIN u.set : IsPrefix(p, q) \/ IsPrefix(q, p)
                            \/ \E p \in u.unset : IsPrefix(p, q)
          IN /\ ~call'.raised
             /\ <<NS, i>> \in DOMAIN es'.source
             /\ <<"_id">> \in DOMAIN call'.post /\ call'.post[<<"_id">>] = i
             /\ Body(call'.post) = new
             /\ IF u.has_set \/ u.has_unset
                THEN /\ \A p \in DOMAIN u.set : p \in DOMAIN new /\ new[p] = u.set[p]
                     /\ \A p \in u.unset : \A q \in DOMAIN new : ~IsPrefix(p, q)
                     /\ \A q \in DOMAIN old : ~touched(q) => q \in DOMAIN new /\ new[q] = old[q]
                     /\ \A q \in DOMAIN new : ~touched(q) => q \in DOMAIN old
                ELSE new = Body(u.object)]_vars

\* C29: bulk_upsert of an empty stream returns without an error and leaves
\* the indexes as they were.
C29_BulkUpsertEmpty ==
    [][(EsCall("bulk_upsert") /\ call'.docs = <<>>) => (~call'.raised /\ es' = es)]_vars

\* bulk_upsert([]) on an index that holds a document
C29_Witness ==
    /\ call.dm = "elastic" /\ call.op = "bulk_upsert" /\ call.docs = <<>>
    /\ ~call.raised /\ DOMAIN es.source # {}

\* C30: once stop() was called no Timer is started, at most one commit still
\* runs, and in the end no thread of the committer runs and no Timer waits.
C30_CommitterStops ==
    /\ [][es.stopped => (es'.timer # es.timer => es'.timer = NoTimer)]_vars
    /\ [](es.late <= 1)
    /\ (es.stopped ~> [](es.pc = "done" /\ es.timer = NoTimer))

\* ------------------------------ the checkpoint path across process restarts
\* Connector.__init__, read_oplog_progress and write_oplog_progress against a
\* checkpoint path that may be missing, unreadable, unwritable or hold
\* anything, in a process that may be killed at any point and started again.
\* kills of the process in one run
MaxKills == 2
\* the greatest position a Tailer publishes in these runs
MaxPublished == 2
\* the shards whose Tailers publish
Publishers == {"s1", "s2"}

\* rest of the state, which the restarts leave alone
bootRest == <<srcVars, sinkVars, cfgVars, es, call, pure, fan, tailVars, mode, can_run,
              shard_set, iter, join_pc, snap_rb, histVars>>

\* the path cannot be written: it is not there and cannot be created, or it
\* is there and the process may not write it
Unwritable(d) == IF d.exists THEN ~d.w ELSE ~d.dir_w

\* __init__, lines 98-117: a missing file is created empty, sys.exit(2) if
\* that fails; a file that is there is refused, with sys.exit(2), when the
\* process may neither write nor read it.
Construct ==
    /\ sup_pc = "new"
    /\ IF ~disk.exists
       THEN IF disk.dir_w
            THEN /\ disk' = [disk EXCEPT !.exists = TRUE, !.r = TRUE, !.w = TRUE,
                                         !.garbled = FALSE]
                 /\ file' = <<>>
                 /\ sup_pc' = "built"
            ELSE /\ sup_pc' = "exit2"
                 /\ UNCHANGED <<disk, file>>
       ELSE /\ sup_pc' = IF ~disk.w /\ ~disk.r THEN "exit2" ELSE "built"
            /\ UNCHANGED <<disk, file>>
    /\ boot' = [boot EXCEPT !.unwritable = Unwritable(disk)]
    /\ UNCHANGED <<lockVars, oplog_progress, bootRest>>

\* somebody removes the file between __init__ and run()
Unlink ==
    /\ sup_pc = "built" /\ disk.exists /\ disk.dir_w /\ boot.kills = 0
    /\ disk' = [disk EXCEPT !.exists = FALSE, !.garbled = FALSE]
    /\ file' = <<>>
    /\ UNCHANGED <<boot, lockVars, oplog_progress, sup_pc, bootRest>>

\* what read_oplog_progress finds at the path
Found(d, f) ==
    IF ~d.exists THEN "missing"
    ELSE IF f = <<>> /\ ~d.garbled THEN "empty"
    ELSE IF ~d.r THEN "unreadable"
    ELSE IF d.garbled \/ Len(f) # 1 THEN "unparseable"
    ELSE "parsed"

\* read_oplog_progress without "except ValueError"
BootLoadUncaught ==
    /\ sup_pc = "built"
    /\ LET what == Found(disk, file)
           loaded == IF what = "parsed"
                     THEN read_oplog_progress(file, oplog_progress)
                     ELSE oplog_progress
       IN /\ oplog_progress' = loaded
          /\ sup_pc' = IF what \in {"unreadable", "unparseable"} THEN "crashed" ELSE "up"
          /\ boot' = [boot EXCEPT !.found = what, !.at = "",
                                  !.old = IF boot.kills = 0 THEN loaded ELSE @]
    /\ UNCHANGED <<disk, file, lockVars, bootRest>>

\* run() calls read_oplog_progress(), lines 158-192: os.stat raises OSError
\* for a missing file and reports size 0 for an empty one, both return; open()
\* raises IOError for a file the process may not read, which nothing catches;
\* json.load raises ValueError, which is caught, for a torn file and for
\* several arrays.
BootLoad ==
    /\ sup_pc = "built"
    /\ LET what == Found(disk, file)
           loaded == IF what = "parsed"
                     THEN read_oplog_progress(file, oplog_progress)
                     ELSE oplog_progress
       IN /\ oplog_progress' = loaded
          /\ sup_pc' = IF what = "unreadable" THEN "crashed" ELSE "up"
          /\ boot' = [boot EXCEPT !.found = what, !.at = "",
                                  !.old = IF boot.kills = 0 THEN loaded ELSE @]
    /\ UNCHANGED <<disk, file, lockVars, bootRest>>

\* a Tailer publishes its next position
Publish(s) ==
    /\ sup_pc = "up"
    /\ oplog_progress[s] < MaxPublished
    /\ oplog_progress' = [oplog_progress EXCEPT ![s] = @ + 1]
    /\ UNCHANGED <<disk, file, boot, lockVars, sup_pc, bootRest>>

\* write_oplog_progress, lines 135-136: os.rename(path, path + '.backup');
\* OSError in a directory the process may not write, which nothing catches
BootRename ==
    /\ sup_pc = "up"
    /\ IF disk.dir_w
       THEN /\ disk' = [disk EXCEPT !.exists = FALSE, !.has_backup = TRUE,
                                    !.backup = file, !.garbled = FALSE]
            /\ file' = <<>>
            /\ sup_pc' = "renamed"
            /\ boot' = [boot EXCEPT !.new = oplog_progress]
       ELSE /\ sup_pc' = "crashed"
            /\ UNCHANGED <<disk, file, boot>>
    /\ UNCHANGED <<lockVars, oplog_progress, bootRest>>

\* lines 139-148: open(path, 'w') creates the file, the map is written entry
\* by entry
BootWrite ==
    /\ sup_pc = "renamed"
    /\ disk' = [disk EXCEPT !.exists = TRUE, !.r = TRUE, !.w = TRUE]
    /\ file' = write_oplog_progress(oplog_progress)
    /\ snap_map' = oplog_progress
    /\ sup_pc' = "writing"
    /\ UNCHANGED <<boot, lock, flush_iter, oplog_progress, bootRest>>

\* the with blocks are left: the file is closed, all of it is on disk
BootClose ==
    /\ sup_pc = "writing"
    /\ sup_pc' = "closed"
    /\ UNCHANGED <<disk, file, boot, lockVars, oplog_progress, bootRest>>

\* line 156: os.remove(path + '.backup')
BootRemove ==
    /\ sup_pc = "closed"
    /\ disk' = [disk EXCEPT !.has_backup = FALSE, !.backup = <<>>]
    /\ boot' = [boot EXCEPT !.old = snap_map]
    /\ sup_pc' = "up"
    /\ UNCHANGED <<file, lockVars, oplog_progress, bootRest>>

\* the process is killed and started again.  Of a file that was being written
\* any part may have reached the disk, the last array torn or not.
Kill ==
    /\ sup_pc \in {"up", "renamed", "writing", "closed"}
    /\ boot.kills < MaxKills
    /\ IF sup_pc = "writing"
       THEN \E k \in 0..Len(file), torn \in BOOLEAN :
               /\ torn => k < Len(file)
               /\ file' = SubSeq(file, 1, k)
               /\ disk' = [disk EXCEPT !.garbled = torn]
       ELSE UNCHANGED <<disk, file>>
    /\ boot' = [boot EXCEPT !.kills = @ + 1, !.at = sup_pc]
    /\ oplog_progress' = EmptyProgress
    /\ sup_pc' = "new"
    /\ UNCHANGED <<lockVars, bootRest>>

\* the checkpoint files a Connector may be started on
InitStartup ==
    /\ InitShards({}, [s \in Shards |-> "fresh"], [s \in Shards |-> {}])
    /\ oplog_progress = EmptyProgress
    /\ collection_dump = TRUE /\ batch_size = 1 /\ continue_on_error = FALSE
    /\ ns_set = <<NS>> /\ dest_ns_set = NoOption /\ fields = NoOption
    /\ poison = {}
    /\ es = EsOff /\ call = NoCall /\ boot = NoBoot /\ pure = NoPure
    /\ file \in {<<>>, write_oplog_progress([EmptyProgress EXCEPT !["s1"] = 1]),
                 write_oplog_progress([EmptyProgress EXCEPT !["s1"] = 1, !["s2"] = 2])}
    /\ \E ex, r, w, dw, g \in BOOLEAN :
          /\ ~ex => (file = <<>> /\ ~g)
          /\ disk = [PlainDisk EXCEPT !.exists = ex, !.r = r, !.w = w, !.dir_w = dw,
                                      !.garbled = g]
    /\ state = [s \in Shards |-> "none"]
    /\ running = [s \in Shards |-> FALSE]
    /\ mode = "REPLSET"
    /\ can_run = TRUE
    /\ sup_pc = "new"
    /\ shard_set = {}
    /\ iter = <<>>
    /\ join_pc = "off"
    /\ snap_rb = [s \in Shards |-> 0]

NextStartup ==
    \/ Construct \/ Unlink \/ BootLoad
    \/ \E s \in Publishers : Publish(s)
    \/ BootRename \/ BootWrite \/ BootClose \/ BootRemove
    \/ Kill

SpecStartup == InitStartup /\ [][NextStartup]_vars

\* C31: a checkpoint file that is missing, empty or not parseable leaves the
\* Progress Map empty when it is loaded, no error is raised and run() goes on.
C31_UnreadableIsEmpty ==
    [][(sup_pc = "built" /\ sup_pc' # "built"
          /\ \/ ~disk.exists
             \/ file = <<>> /\ ~disk.garbled
             \/ disk.r /\ (disk.garbled \/ Len(file) > 1))
        => (oplog_progress' = EmptyProgress /\ sup_pc' = "up")]_vars

\* the load of a file torn by a kill in the middle of a flush, of a missing
\* file, of an empty file
C31_Witness ==
    /\ sup_pc = "up" /\ boot.found = "unparseable" /\ boot.kills > 0
    /\ disk.garbled /\ oplog_progress = EmptyProgress

\* C32: a checkpoint path that cannot be written (not there and not
\* creatable, or there and not writable) ends the construction with exit code
\* 2, before run() and any Tailer.
C32_UnwritableIsFatal ==
    [][(sup_pc = "new" /\ sup_pc' # "new" /\ Unwritable(disk)) => sup_pc' = "exit2"]_vars

\* C36: the start after a kill at any point of a flush (after the rename,
\* during the write, before the backup is removed) loads the checkpoint
\* persisted before that flush or the one the flush wrote.
C36_KilledFlushKeepsCheckpoint ==
    [][(sup_pc = "built" /\ sup_pc' # "built"
          /\ boot.at \in {"renamed", "writing", "closed"})
        => (sup_pc' = "up" /\ oplog_progress' \in {boot.old, boot.new})]_vars

\* --------------------------------------- functions applied to their inputs
\* The functions of util and of the formatters, each applied to inputs drawn
\* from a small set, as their unit tests apply them.
\* a Timestamp is <<time, inc>>
Timestamps == (0..(Word - 1)) \X (0..(Word - 1))
\* Timestamp.__lt__: by time, then by inc
TsLess(a, b) == a[1] < b[1] \/ (a[1] = b[1] /\ a[2] < b[2])

pureRest == <<srcVars, sinkVars, cfgVars, es, call, disk, boot, fan, lockVars,
              oplog_progress, file, tailVars, supVars, histVars>>

\* bson_ts_to_long of two Timestamps
ToLong ==
    /\ pure.fn = "bson_ts" /\ pure.step = 0
    /\ pure' = [pure EXCEPT !.step = 1,
                            !.out = <<to_int64(pure.arg[1][1], pure.arg[1][2]),
                                      to_int64(pure.arg[2][1], pure.arg[2][2])>>]
    /\ UNCHANGED pureRest

\* long_to_bson_ts of the two longs
FromLong ==
    /\ pure.fn = "bson_ts" /\ pure.step = 1
    /\ pure' = [pure EXCEPT !.step = 2,
                            !.out = <<pure.out[1], pure.out[2],
                                      from_int64(pure.out[1]), from_int64(pure.out[2])>>]
    /\ UNCHANGED pureRest

\* the documents of test_formatters: flat, nested, with nested lists
FlatDoc == ("n" :> Number(1)) @@ ("b" :> Binary(7)) @@ ("oid" :> ObjectId(9))
NestedDoc == ("nested" :> Dict(FlatDoc))
ListsDoc == ("nested" :> Array(<<Array(<<Dict("inner_doc" :> Array(<<Dict(FlatDoc)>>))>>)>>))
NumbersDoc == ("a" :> Number(2)) @@ ("e" :> Array(<<Number(6), Number(7)>>))
TestDocs == {EmptyDoc, FlatDoc, NestedDoc, ListsDoc, NumbersDoc}
TestValues == {FlatDoc[k] : k \in DOMAIN FlatDoc}
                  \cup {Dict(d) : d \in TestDocs}
                  \cup {NumbersDoc["e"], ListsDoc["nested"], Array(<<ObjectId(9), Binary(7)>>)}

\* the value the formatters' specification gives for a value: numbers kept,
\* binary base64-encoded, maps and lists transformed inside, str() otherwise
RECURSIVE Transformed(_)
Transformed(value) ==
    IF type(value) = "int" THEN value
    ELSE IF type(value) = "bin" THEN b64encode(value)
    ELSE IF type(value) = "map"
    THEN Dict([k \in DOMAIN content(value) |-> Transformed(content(value)[k])])
    ELSE IF type(value) = "list"
    THEN Array([i \in 1..Len(content(value)) |-> Transformed(content(value)[i])])
    ELSE str(value)

\* DefaultDocumentFormatter().format_document(document)
DefaultFormat ==
    /\ pure.fn = "format_document" /\ pure.step = 0
    /\ LET r == format_document(pure.arg)
       IN pure' = [pure EXCEPT !.step = 1, !.raised = r.raised,
                               !.out = IF r.raised THEN EmptyDoc ELSE r.doc]
    /\ UNCHANGED pureRest

\* DefaultDocumentFormatter().transform_value(value)
DefaultTransform ==
    /\ pure.fn = "transform_value" /\ pure.step = 0
    /\ LET r == transform_value(pure.arg)
       IN pure' = [pure EXCEPT !.step = 1, !.raised = r.raised, !.out = r.val]
    /\ UNCHANGED pureRest

\* the example of DocumentFlattener's docstring and the documents of
\* test_flattener
DocstringDoc ==
    ("a" :> Number(2)) @@ ("b" :> Dict("c" :> Dict("d" :> Number(5))))
        @@ ("e" :> Array(<<Number(6), Number(7), Number(8)>>))
SubDocs == ("doc" :> Array(<<Dict(FlatDoc), Dict("sub-doc" :> Dict(FlatDoc))>>))
DeepDoc == ("b" :> Dict("l" :> Array(<<Array(<<ObjectId(9)>>), Dict(NumbersDoc)>>)))
FlattenDocs == TestDocs \cup {DocstringDoc, SubDocs, DeepDoc}

\* the leaves of a value with the keys and list indices that lead to them
RECURSIVE Leaves(_, _)
Leaves(path, value) ==
    IF type(value) = "map"
    THEN UNION {Leaves(Append(path, k), content(value)[k]) : k \in DOMAIN content(value)}
    ELSE IF type(value) = "list"
    THEN UNION {Leaves(path \o IndexKey(i - 1), content(value)[i]) : i \in 1..Len(content(value))}
    ELSE {<<path, value>>}

\* DocumentFlattener().format_document(document)
FlatFormat ==
    /\ pure.fn = "flatten" /\ pure.step = 0
    /\ pure' = [pure EXCEPT !.step = 1, !.out = flat_format_document(pure.arg)]
    /\ UNCHANGED pureRest

InitPure ==
    /\ InitShards({}, [s \in Shards |-> "fresh"], [s \in Shards |-> {}])
    /\ oplog_progress = EmptyProgress /\ file = <<>>
    /\ collection_dump = TRUE /\ batch_size = 1 /\ continue_on_error = FALSE
    /\ ns_set = <<NS>> /\ dest_ns_set = NoOption /\ fields = NoOption
    /\ poison = {}
    /\ es = EsOff /\ call = NoCall /\ disk = PlainDisk /\ boot = NoBoot
    /\ state = [s \in Shards |-> "none"]
    /\ running = [s \in Shards |-> FALSE]
    /\ mode = "REPLSET" /\ can_run = TRUE /\ sup_pc = "unit"
    /\ shard_set = {} /\ iter = <<>> /\ join_pc = "off"
    /\ snap_rb = [s \in Shards |-> 0]
    /\ \/ \E a, b \in Timestamps : pure = [NoPure EXCEPT !.fn = "bson_ts", !.arg = <<a, b>>]
       \/ \E d \in TestDocs : pure = [NoPure EXCEPT !.fn = "format_document", !.arg = d]
       \/ \E v \in TestValues : pure = [NoPure EXCEPT !.fn = "transform_value", !.arg = v]
       \/ \E d \in FlattenDocs : pure = [NoPure EXCEPT !.fn = "flatten", !.arg = d]

NextPure == ToLong \/ FromLong \/ DefaultFormat \/ DefaultTransform \/ FlatFormat

SpecPure == InitPure /\ [][NextPure]_vars

\* C33: bson_ts_to_long gives time * 2^32 + inc, long_to_bson_ts gives the
\* Timestamp back, for every time and inc of a word, and the longs of two
\* Timestamps compare as the Timestamps do.
C33_PositionRoundTrip ==
    (pure.fn = "bson_ts" /\ pure.step = 2) =>
        LET a == pure.arg[1]
            b == pure.arg[2]
        IN /\ pure.out[1] = a[1] * Word + a[2]
           /\ pure.out[1] \in 0..(Word * Word - 1)
           /\ pure.out[3] = a /\ pure.out[4] = b
           /\ TsLess(a, b) <=> pure.out[1] < pure.out[2]
           /\ a = b <=> pure.out[1] = pure.out[2]

\* the greatest Timestamp and the one before it, there and back
C33_Witness ==
    /\ pure.fn = "bson_ts" /\ pure.step = 2
    /\ pure.arg = <<<<Word - 1, Word - 1>>, <<Word - 1, Word - 2>>>>
    /\ pure.out[3] = <<Word - 1, Word - 1>> /\ pure.out[2] < pure.out[1]

\* C34: DefaultDocumentFormatter.format_document(d) is the map that sends each
\* key k of d to transform_value(d[k]), and transform_value keeps numbers,
\* base64-encodes binary, formats nested maps, transforms the elements of a
\* list and turns every other value into its string.
C34_DefaultFormatter ==
    /\ (pure.fn = "format_document" /\ pure.step = 1) =>
          /\ ~pure.raised
          /\ pure.out = [k \in DOMAIN pure.arg |-> Transformed(pure.arg[k])]
    /\ (pure.fn = "transform_value" /\ pure.step = 1) =>
          /\ ~pure.raised
          /\ pure.out = Transformed(pure.arg)

\* C35: DocumentFlattener.format_document returns a map without map-valued
\* and without list-valued entries; a leaf reached through the keys and list
\* indices p1,...,pn is found under the key p1.p2.....pn with the value
\* transform_value(leaf), and a flat document is formatted as by
\* transform_value on each of its values.
C35_Flattener ==
    (pure.fn = "flatten" /\ pure.step = 1) =>
        LET leaves == Leaves(<<>>, Dict(pure.arg))
        IN /\ \A key \in DOMAIN pure.out : type(pure.out[key]) \notin {"map", "list"}
           /\ DOMAIN pure.out = {l[1] : l \in leaves}
           /\ \A l \in leaves : pure.out[l[1]] = flat_transform_value(l[2]).val
           /\ \A l \in leaves : pure.out[l[1]] = Transformed(l[2])
           /\ (\A k \in DOMAIN pure.arg : type(pure.arg[k]) \notin {"map", "list"})
                 => pure.out = [key \in {<<k>> : k \in DOMAIN pure.arg} |->
                                   flat_transform_value(pure.arg[key[1]]).val]
C35_Witness ==
    /\ pure.fn = "flatten" /\ pure.step = 1 /\ pure.arg = SubDocs
    /\ <<"doc", "1", "sub-doc", "b">> \in DOMAIN pure.out
    /\ pure.out[<<"doc", "0", "n">>] = Number(1)

\* C37: bulk_upsert of a stream leaves the documents and the metadata of the
\* sink as upsert of each document in order leaves them; each bulk-upserted
\* document is found by search over a range that holds its _ts, counts for
\* get_last_doc and keeps its namespace.
C37_BulkUpsertIsUpserts ==
    [][EsCall("bulk_upsert") =>
          LET docs == call'.docs
              r == es_upserts(es, docs)
          IN /\ call'.raised = r.raised
             /\ es'.source = r.es.source
             /\ es'.meta = r.es.meta
             /\ ~call'.raised =>
                   \A i \in 1..Len(docs) :
                       LET doc_id == docs[i][<<"_id">>]
                           ts == docs[i][<<"_ts">>]
                       IN /\ doc_id \in es_search(es', ts, ts)
                          /\ es_get_last_doc(es') # None
                          /\ es'.meta[es_get_last_doc(es')]["_ts"] >= ts
                          /\ "ns" \in DOMAIN es'.meta[doc_id]
                          /\ es'.meta[doc_id]["ns"] = docs[i][<<"ns">>]]_vars

\* C38: documents with the same id in different namespaces are independent:
\* an upsert or a remove of (nsB, id) leaves the document the sink holds for
\* (nsA, id), and the namespace and _ts it reports for it, as they are.
C38_NamespacesIndependent ==
    /\ [][(SimCall("upsert") \/ SimCall("remove")) =>
             \A r \in AllRecords(dms[1]) :
                 (r.id = call'.id /\ r.ns # call'.ns) => r \in AllRecords(dms'[1])]_vars
    /\ [][(EsCall("upsert") \/ EsCall("remove")) =>
             \A key \in DOMAIN es.source :
                 (key[2] = call'.id /\ key[1] # call'.ns) =>
                     /\ key \in DOMAIN es'.source
                     /\ es'.source[key] = es.source[key]
                     /\ (key[2] \in DOMAIN es.meta /\ es.meta[key[2]]["ns"] = key[1]) =>
                           /\ key[2] \in DOMAIN es'.meta
                           /\ es'.meta[key[2]] = es.meta[key[2]]]_vars

\* a Tailer is constructed and started for shard s in this step
Constructs(s) == state'[s] = "init" /\ state[s] # "init"

\* at most one Tailer per shard id, and id 0 for the shard of a replica set
C39_OneTailer ==
    /\ [][\A s \in Shards :
             /\ Constructs(s) => (s \notin shard_set /\ state[s] = "none"
                                     /\ s \in shard_set' /\ running'[s])
             /\ s \in shard_set => s \in shard_set']_vars
    /\ [](mode # "SHARDED" => shard_set \subseteq {"0"})
    /\ [](mode = "SHARDED" => shard_set \subseteq catalogue)

\* C39, as stated: at most one Tailer is constructed and started per shard id,
\* the shard of an unsharded deployment has id 0, and on a sharded cluster
\* every shard of the catalogue eventually has a Tailer unless the Supervisor
\* is cancelled.
C39_TailerPerShard_Original ==
    /\ C39_OneTailer
    /\ \A s \in Shards :
          (mode = "SHARDED" /\ s \in catalogue) ~> (s \in shard_set \/ ~can_run)

\* C39: at most one Tailer is constructed and started per shard id, the shard
\* of an unsharded deployment has id 0, and on a sharded cluster every shard
\* of the catalogue eventually has a Tailer unless the Supervisor is cancelled
\* or has shut down, as it does for a catalogue entry that names no replica
\* set and for a Tailer that stopped.
C39_TailerPerShard ==
    /\ C39_OneTailer
    /\ \A s \in Shards :
          (mode = "SHARDED" /\ s \in catalogue)
              ~> (s \in shard_set \/ ~can_run \/ sup_pc = "returned")

\* the catalogue is run through again, every shard has its Tailer, the one of
\* s1 is at work, and s2 is found for the second time
C39_Witness ==
    /\ mode = "SHARDED" /\ can_run /\ sup_pc = "for"
    /\ catalogue = {"s1", "s2"} /\ shard_set = catalogue
    /\ iter = <<"s2">>
    /\ state["s1"] = "tailing" /\ running["s1"] /\ running["s2"]

\* run() leaves its monitoring loop in this step
LeavesLoop ==
    /\ sup_pc \in {"probe", "repl_loop", "while", "for"}
    /\ sup_pc' \in {"join_final", "join_abort", "returned"}

\* run() returns only with every Tailer joined, and from the path of the
\* cancellation only through the final flush; once cancelled it returns
C40_Returns ==
    /\ [][(sup_pc' = "done" /\ sup_pc # "done") =>
             /\ ~can_run
             /\ \A s \in shard_set : state[s] = "stopped" /\ ~running[s]
             /\ file' = write_oplog_progress(oplog_progress)]_vars
    /\ [][(sup_pc' = "returned" /\ sup_pc # "returned") =>
             \A s \in shard_set : state[s] = "stopped" /\ ~running[s]]_vars
    /\ (~can_run ~> sup_pc \in {"done", "returned"})
    /\ ((~can_run /\ sup_pc \in {"repl_loop", "while"}
            /\ \A s \in catalogue : s \in shard_set /\ running[s])
          ~> sup_pc = "done")

====
